---- MODULE Spec2Model ----
(***************************************************************************)
(* A model of tuberd's request handling pipeline (src/tuber/server.py) and *)
(* of the client context that batches calls (src/tuber/client.py).         *)
(*                                                                         *)
(* Python values are tagged records; Python strings are TLA+ strings, so   *)
(* that split(","), strip(), f-strings and prefix tests are computed and   *)
(* not assumed.  Exceptions are values [cls, text]; an operator that can   *)
(* raise returns [ok |-> FALSE, exc |-> e] instead of [ok |-> TRUE, ...].  *)
(***************************************************************************)
EXTENDS Integers, Sequences, FiniteSets, TLC

(***************************************************************************)
(* Bounds of the model.                                                    *)
(***************************************************************************)
MaxBatch == 3
\* how many steps of loop.close() a loop records
MaxTeardown == 4

(***************************************************************************)
(* Python values.                                                          *)
(***************************************************************************)
PyNone == [t |-> "None"]
PyStr(s) == [t |-> "str", s |-> s]
PyInt(n) == [t |-> "int", n |-> n]
PyBool(b) == [t |-> "bool", b |-> b]
PyList(xs) == [t |-> "list", xs |-> xs]
PyDict(d) == [t |-> "dict", d |-> d]
\* a reference to a host object of the registry's object graph
PyRef(id) == [t |-> "ref", id |-> id]
\* a bound method of a host object
PyMethod(id, name) == [t |-> "method", id |-> id, name |-> name]

IsStr(v) == v.t = "str"
IsList(v) == v.t = "list"
IsDict(v) == v.t = "dict"

\* An exception instance: its class name and str(e).
Exc(cls, text) == [cls |-> cls, text |-> text]
Raise(cls, text) == [ok |-> FALSE, exc |-> Exc(cls, text)]
Return(v) == [ok |-> TRUE, val |-> v]

(***************************************************************************)
(* Strings: str.strip(), str.split(","), str.startswith().                 *)
(***************************************************************************)
StartsWith(s, p) == Len(s) >= Len(p) /\ SubSeq(s, 1, Len(p)) = p

CharAt(s, k) == SubSeq(s, k, k)

RECURSIVE LStrip(_)
LStrip(s) ==
    IF Len(s) > 0 /\ CharAt(s, 1) = " " THEN LStrip(SubSeq(s, 2, Len(s))) ELSE s

RECURSIVE RStrip(_)
RStrip(s) ==
    IF Len(s) > 0 /\ CharAt(s, Len(s)) = " "
    THEN RStrip(SubSeq(s, 1, Len(s) - 1))
    ELSE s

Strip(s) == RStrip(LStrip(s))

\* s.split(","): always at least one piece; "" splits to <<"">>.
RECURSIVE SplitFrom(_, _, _)
SplitFrom(s, start, k) ==
    IF k > Len(s) THEN << SubSeq(s, start, Len(s)) >>
    ELSE IF CharAt(s, k) = ","
         THEN << SubSeq(s, start, k - 1) >> \o SplitFrom(s, k + 1, k + 1)
         ELSE SplitFrom(s, start, k + 1)

SplitComma(s) == SplitFrom(s, 1, 1)

\* [v.strip() for v in s.split(",")]
StripAll(parts) == [k \in 1..Len(parts) |-> Strip(parts[k])]

InSeq(x, seq) == \E k \in 1..Len(seq) : seq[k] = x

(***************************************************************************)
(* repr() and str() of the values that appear in messages.                 *)
(***************************************************************************)
Digit(n) == SubSeq("0123456789", n + 1, n + 1)

RECURSIVE NatStr(_)
NatStr(n) == IF n < 10 THEN Digit(n) ELSE NatStr(n \div 10) \o Digit(n % 10)

RECURSIVE PyRepr(_)
RECURSIVE ReprItems(_, _)
ReprItems(xs, k) ==
    IF k > Len(xs) THEN ""
    ELSE PyRepr(xs[k]) \o (IF k < Len(xs) THEN ", " ELSE "") \o ReprItems(xs, k + 1)

PyRepr(v) ==
    CASE v.t = "str" -> "'" \o v.s \o "'"
      [] v.t = "int" -> NatStr(v.n)
      [] v.t = "bool" -> IF v.b THEN "True" ELSE "False"
      [] v.t = "None" -> "None"
      [] v.t = "list" -> "[" \o ReprItems(v.xs, 1) \o "]"
      [] OTHER -> "<" \o v.t \o ">"

\* str(v), as an f-string formats it
PyFormat(v) == IF v.t = "str" THEN v.s ELSE PyRepr(v)

(***************************************************************************)
(* The registry and the host objects behind it: the registry of            *)
(* tests/test.py.  A host object has a class name, named attributes and,   *)
(* for a TuberContainer, the list or dict it wraps.                        *)
(***************************************************************************)
NoData == [t |-> "None"]

Obj(cls, attrs) == [cls |-> cls, attrs |-> attrs, data |-> NoData]
Container(data) ==
    [cls |-> "TuberContainer",
     attrs |-> [n \in {"tuber_call", "tuber_meta"} |-> [t |-> "method", id |-> "", name |-> n]],
     data |-> data]

Attrs1(n, v) == [x \in {n} |-> v]
NoAttrs == [x \in {} |-> PyNone]

\* an object such as a host may register beside those of the tests: its class gives
\* it a public property, a property whose name begins with one underscore and a
\* method whose name begins with _tuber
ProtectedObject ==
    Obj("ObjectWithProtected",
        [n \in {"visible", "_protected", "_tuber_reset"} |->
            CASE n = "visible" -> PyInt(1)
              [] n = "_protected" -> PyStr("internal")
              [] OTHER -> PyMethod("protected", n)])

\* the host objects of the registry of tests/test.py and the one above, by a name for
\* each instance
RegistryObjects ==
    [id \in {"null", "method_a", "method_b", "property_0", "property_1", "private",
             "containerprops", "property_objects", "method_objects", "objectlist",
             "types", "warnings", "wrapper", "protected"} |->
        CASE id = "null" -> Obj("NullObject", NoAttrs)
          [] id = "protected" -> ProtectedObject
          [] id \in {"method_a", "method_b"} ->
                Obj("ObjectWithMethod", Attrs1("method", PyMethod(id, "method")))
          [] id \in {"property_0", "property_1"} ->
                Obj("ObjectWithProperty", Attrs1("PROPERTY", PyStr("expected property value")))
          [] id = "private" ->
                Obj("ObjectWithPrivateMethod",
                    Attrs1("_ObjectWithPrivateMethod__private_method",
                           PyMethod(id, "__private_method")))
          [] id = "containerprops" ->
                Obj("ObjectWithContainerProperties",
                    [n \in {"property_objects", "method_objects"} |-> PyRef(n)])
          [] id = "property_objects" ->
                Container(PyList(<< PyRef("property_0"), PyRef("property_1") >>))
          [] id = "method_objects" ->
                Container(PyDict([k \in {"a", "b"} |->
                                    IF k = "a" THEN PyRef("method_a") ELSE PyRef("method_b")]))
          [] id = "objectlist" ->
                Container(PyList(<< PyRef("containerprops"), PyRef("containerprops") >>))
          [] id = "types" ->
                Obj("Types",
                    [n \in {"INTEGER", "STRING", "integer_function", "string_function"} |->
                        CASE n = "INTEGER" -> PyInt(1234)
                          [] n = "STRING" -> PyStr("this is a string property")
                          [] OTHER -> PyMethod(id, n)])
          [] id = "warnings" ->
                Obj("WarningsClass",
                    [n \in {"single_warning", "multiple_warnings"} |-> PyMethod(id, n)])
          [] id = "wrapper" ->
                Obj("Wrapper", [n \in {"increment", "unserializable"} |-> PyMethod(id, n)])]

\* the registry of tests/test.py: root name -> host object
RegistryRoots ==
    [n \in {"Protected", "NullObject", "ObjectWithMethod", "ObjectWithProperty", "ObjectWithPrivateMethod",
            "ObjectWithContainerProperties", "ObjectList", "Types", "Warnings", "Wrapper"} |->
        CASE n = "NullObject" -> PyRef("null")
          [] n = "ObjectWithMethod" -> PyRef("method_a")
          [] n = "ObjectWithProperty" -> PyRef("property_0")
          [] n = "ObjectWithPrivateMethod" -> PyRef("private")
          [] n = "ObjectWithContainerProperties" -> PyRef("containerprops")
          [] n = "ObjectList" -> PyRef("objectlist")
          [] n = "Types" -> PyRef("types")
          [] n = "Warnings" -> PyRef("warnings")
          [] n = "Wrapper" -> PyRef("wrapper")
          [] n = "Protected" -> PyRef("protected")]

\* the registry object itself, the start of every path
RegistryRef == [t |-> "registry"]

\* The state of the registry the handler serves: the attributes of the TuberRegistry
\* (its __dict__) and the host objects reachable from it.
VARIABLES
    registry,           \* TuberRegistry.__dict__: root name -> host object
    heap                \* the host objects: class, attributes, wrapped list or dict

registry_vars == << registry, heap >>

RegistryInit ==
    /\ registry = RegistryRoots
    /\ heap = RegistryObjects

(***************************************************************************)
(* getattr(obj, name), hasattr and obj[item] on the values of the model.   *)
(***************************************************************************)
ClassName(v) ==
    CASE v.t = "registry" -> "TuberRegistry"
      [] v.t = "ref" -> heap[v.id].cls
      [] v.t = "method" -> "method"
      [] v.t = "None" -> "NoneType"
      [] OTHER -> v.t

NoAttribute(v, name) ==
    Raise("AttributeError", "'" \o ClassName(v) \o "' object has no attribute '" \o name \o "'")

GetAttr(v, name) ==
    CASE v.t = "registry" ->
            IF name \in DOMAIN registry THEN Return(registry[name])
            ELSE NoAttribute(v, name)
      [] v.t = "ref" ->
            LET o == heap[v.id] IN
            IF name \in DOMAIN o.attrs
            THEN Return(IF o.attrs[name].t = "method"
                        THEN PyMethod(v.id, o.attrs[name].name)
                        ELSE o.attrs[name])
            \* TuberContainer.__getattr__ forwards to the wrapped list or dict
            ELSE IF o.data.t # "None" THEN NoAttribute(o.data, name)
            ELSE NoAttribute(v, name)
      [] OTHER -> NoAttribute(v, name)

HasAttr(v, name) == GetAttr(v, name).ok

\* o[i]: a list takes an int in range, a dict takes a key it holds;
\* TuberContainer.__getitem__ forwards to the wrapped list or dict.
RECURSIVE GetItem(_, _)
GetItem(v, item) ==
    CASE v.t = "ref" ->
            IF heap[v.id].data.t # "None" THEN GetItem(heap[v.id].data, item)
            ELSE Raise("TypeError", "'" \o ClassName(v) \o "' object is not subscriptable")
      [] v.t = "list" ->
            IF item.t # "int"
            THEN Raise("TypeError", "list indices must be integers or slices, not " \o item.t)
            ELSE IF item.n < Len(v.xs) THEN Return(v.xs[item.n + 1])
            ELSE Raise("IndexError", "list index out of range")
      [] v.t = "dict" ->
            IF item.t = "str" /\ item.s \in DOMAIN v.d THEN Return(v.d[item.s])
            ELSE IF item.t \in {"list", "dict"}
            THEN Raise("TypeError", "unhashable type: '" \o item.t \o "'")
            ELSE Raise("KeyError", PyRepr(item))
      [] OTHER -> Raise("TypeError", "'" \o ClassName(v) \o "' object is not subscriptable")

(***************************************************************************)
(* TuberRegistry.__getitem__: a path is a bare string or a list whose      *)
(* elements are a string or a list [attr, index, ...].                     *)
(***************************************************************************)
\* functools.reduce(lambda o, i: o[i], items, getattr(obj, attr)), x = [attr, *items]
RECURSIVE IndexAll(_, _, _)
IndexAll(r, x, k) ==
    IF ~r.ok \/ k > Len(x) THEN r ELSE IndexAll(GetItem(r.val, x[k]), x, k + 1)

agetter(obj, x) ==
    IF Len(x) = 0
    THEN Raise("TypeError", "agetter() missing 1 required positional argument: 'attr'")
    ELSE IF x[1].t # "str"
    THEN Raise("TypeError", "attribute name must be string, not '" \o x[1].t \o "'")
    ELSE IndexAll(GetAttr(obj, x[1].s), x, 2)

\* [[x] if isinstance(x, str) else x for x in objname]
NormalizePath(xs) ==
    [k \in 1..Len(xs) |-> IF xs[k].t = "str" THEN PyList(<< xs[k] >>) ELSE xs[k]]

RECURSIVE ReducePath(_, _, _)
ReducePath(r, xs, k) ==
    IF ~r.ok \/ k > Len(xs) THEN r
    ELSE IF xs[k].t # "list"
    THEN Raise("TypeError", "agetter() argument after * must be an iterable, not " \o xs[k].t)
    ELSE ReducePath(agetter(r.val, xs[k].xs), xs, k + 1)

\* str(cls(msg)) for a message that holds a single quote and no double quote: a
\* KeyError shows the repr of its argument, the other classes the argument
ExcStr(cls, msg) == IF cls = "KeyError" THEN "\"" \o msg \o "\"" ELSE msg

\* the except clause: the text names objname as it is bound when the failure is raised
InvalidName(e, objname) ==
    [ok |-> FALSE,
     exc |-> Exc(e.cls,
                 ExcStr(e.cls, e.text \o " (Invalid object name '" \o PyFormat(objname)
                                      \o "')"))]

\* try: ... except Exception as e: raise e.__class__(f"{e} (Invalid object name ...)")
Named(r, objname) == IF r.ok THEN r ELSE InvalidName(r.exc, objname)

\* the list branch: objname is bound to the normalized list before the reduction
ResolvePath(norm) == Named(ReducePath(Return(RegistryRef), norm, 1), PyList(norm))

RegistryGetItem(objname) ==
    IF objname.t = "str" THEN Named(GetAttr(RegistryRef, objname.s), objname)
    ELSE IF objname.t # "list"
    THEN InvalidName(Exc("TypeError", "'" \o ClassName(objname) \o "' object is not iterable"),
                     objname)
    ELSE ResolvePath(NormalizePath(objname.xs))

(***************************************************************************)
(* The reflector: resolve_method, resolve_object, TuberContainer.tuber_meta*)
(***************************************************************************)
\* dir(obj) in the order dir() gives, dunder names left out (they are never exported)
Dir(v) ==
    IF v.t # "ref" THEN << >>
    ELSE CASE heap[v.id].cls = "TuberContainer" ->
                << "_TuberContainer__data", "tuber_call", "tuber_meta" >>
           [] heap[v.id].cls = "ObjectWithMethod" -> << "method" >>
           [] heap[v.id].cls = "ObjectWithProperty" -> << "PROPERTY" >>
           [] heap[v.id].cls = "ObjectWithPrivateMethod" ->
                << "_ObjectWithPrivateMethod__private_method" >>
           [] heap[v.id].cls = "ObjectWithContainerProperties" ->
                << "method_objects", "property_objects" >>
           [] heap[v.id].cls = "Types" ->
                << "INTEGER", "STRING", "integer_function", "string_function" >>
           [] heap[v.id].cls = "WarningsClass" -> << "multiple_warnings", "single_warning" >>
           [] heap[v.id].cls = "Wrapper" -> << "increment", "unserializable" >>
           [] heap[v.id].cls = "ObjectWithProtected" ->
                << "_protected", "_tuber_reset", "visible" >>
           [] OTHER -> << >>

\* inspect.getdoc
GetDoc(v) ==
    IF v.t = "ref" /\ heap[v.id].cls = "TuberContainer"
    THEN PyStr("Container for grouping objects")
    ELSE PyNone

\* str(inspect.signature(method))
Signature(m) ==
    CASE m.name = "method" -> "()"
      [] m.name = "integer_function" -> "(arg=1234)"
      [] m.name = "string_function" -> "(arg='this is a string property')"
      [] m.name = "single_warning" -> "(warning_text, error=False)"
      [] m.name = "multiple_warnings" -> "(warning_count=1, error=False)"
      [] m.name = "tuber_call" -> "(method, *args, **kwargs)"
      [] OTHER -> "()"

Callable(v) == v.t = "method"

\* getattr(attr, "__tuber_object__", False)
IsTuberObject(v) == v.t = "ref" /\ heap[v.id].cls = "TuberContainer"

\* inspect.getdoc(method): the methods of TuberContainer have a docstring (its first
\* line is kept here), those of the registry's classes have none
MethodDoc(m) ==
    CASE m.name = "tuber_call" -> PyStr("Call a method on every container item.")
      [] m.name = "tuber_meta" ->
            PyStr("Return a dict with descriptions of all items in the collection")
      [] OTHER -> PyNone

resolve_method(m) ==
    PyDict([k \in {"__doc__", "__signature__"} |->
              IF k = "__doc__" THEN MethodDoc(m) ELSE PyStr(Signature(m))])

\* the names of dir(obj) that pass the filter of resolve_object, in order
Exported(v) ==
    LET clsname == ClassName(v)
        keep(d) == ~(StartsWith(d, "__") \/ StartsWith(d, "_" \o clsname \o "__"))
    IN SelectSeq(Dir(v), keep)

\* getattr(obj, d) for a name d of dir(obj)
DirAttr(v, d) == GetAttr(v, d).val

SeqToSet(seq) == {seq[k] : k \in 1..Len(seq)}

StrList(seq) == PyList([k \in 1..Len(seq) |-> PyStr(seq[k])])

\* the keys of a dict in the order the dict holds them
KeySeq(S) == CHOOSE seq \in [1..Cardinality(S) -> S] : SeqToSet(seq) = S

\* the exported names of obj by the class resolve_object puts them in
ObjectNames(v) == SelectSeq(Exported(v), LAMBDA d : IsTuberObject(DirAttr(v, d)))

MethodNames(v) ==
    SelectSeq(Exported(v), LAMBDA d : ~IsTuberObject(DirAttr(v, d)) /\ Callable(DirAttr(v, d)))

PropertyNames(v) ==
    SelectSeq(Exported(v), LAMBDA d : ~IsTuberObject(DirAttr(v, d)) /\ ~Callable(DirAttr(v, d)))

\* out = dict(__doc__=inspect.getdoc(obj), methods=methods, properties=props)
Descriptor(v, methods, props) ==
    [k \in {"__doc__", "methods", "properties"} |->
        CASE k = "__doc__" -> GetDoc(v)
          [] k = "methods" -> methods
          [] k = "properties" -> props]

\* out[key] = value
SetKey(out, key, value) ==
    [k \in DOMAIN out \cup {key} |-> IF k = key THEN value ELSE out[k]]

\* out.update(more)
Update(out, more) ==
    [k \in DOMAIN out \cup DOMAIN more |-> IF k \in DOMAIN more THEN more[k] ELSE out[k]]

\* the values of a container's list or dict, in order
ContainerValues(data) ==
    IF data.t = "list" THEN data.xs
    ELSE [k \in 1..Cardinality(DOMAIN data.d) |-> data.d[KeySeq(DOMAIN data.d)[k]]]

\* tuber_meta's out: {"values": [...]} and, for a dict, "keys"
Meta(data, values) ==
    IF data.t = "list" THEN Attrs1("values", PyList(values))
    ELSE SetKey(Attrs1("values", PyList(values)), "keys", StrList(KeySeq(DOMAIN data.d)))

\* resolve_object and TuberContainer.tuber_meta call each other; Reflect is both, so
\* that the recursion is one operator's: how = "simple" is resolve_object(v,
\* recursive=False), "recursive" is resolve_object(v), "meta" is v.tuber_meta().
RECURSIVE Reflect(_, _)
Reflect(v, how) ==
    CASE how = "simple" ->
            Descriptor(v, StrList(MethodNames(v)), StrList(PropertyNames(v)))
      [] how = "meta" ->
            Meta(heap[v.id].data,
                 [k \in 1..Len(ContainerValues(heap[v.id].data)) |->
                    PyDict(Reflect(ContainerValues(heap[v.id].data)[k], "recursive"))])
      [] how = "recursive" ->
            Update(SetKey(Descriptor(v,
                                     PyDict([d \in SeqToSet(MethodNames(v)) |->
                                               resolve_method(DirAttr(v, d))]),
                                     PyDict([d \in SeqToSet(PropertyNames(v)) |->
                                               DirAttr(v, d)])),
                          "objects",
                          PyDict([d \in SeqToSet(ObjectNames(v)) |->
                                    PyDict(Reflect(DirAttr(v, d), "recursive"))])),
                   IF HasAttr(v, "tuber_meta") THEN Reflect(v, "meta") ELSE NoAttrs)

resolve_object(v, recursive) == PyDict(Reflect(v, IF recursive THEN "recursive" ELSE "simple"))

tuber_meta(v) == Reflect(v, "meta")

(***************************************************************************)
(* Python's warnings module, as far as invoke uses it.  The state of the   *)
(* module is its filter list and its display hook; a hook is "stderr" (the *)
(* default) or a recording list.  A warning counts as emitted when warn()  *)
(* hands it to the hook that is installed at that moment.                  *)
(***************************************************************************)
\* the filters a fresh interpreter starts with
DefaultFilters == << "default::DeprecationWarning:__main__", "ignore::DeprecationWarning" >>

DefaultHook == [kind |-> "stderr"]
RecordHook(log) == [kind |-> "record", log |-> log]

InitialWarnings == [filters |-> DefaultFilters, hook |-> DefaultHook]

\* warnings.catch_warnings(record=True).__enter__: the filters are copied, the hook
\* becomes a new empty list
CatchWarningsEnter(w) == [filters |-> w.filters, hook |-> RecordHook(<< >>)]

\* CatchWarningsExit as it would be if only the hook were put back
CatchWarningsExit_hook_only(saved, w) == [filters |-> w.filters, hook |-> saved.hook]

\* catch_warnings.__exit__: filters and hook are put back
CatchWarningsExit(saved, w) == [filters |-> saved.filters, hook |-> saved.hook]

\* warnings.warn(msg): a UserWarning, which no "ignore" filter of the model matches
Warn(w, msg) ==
    IF w.hook.kind = "record"
    THEN [w EXCEPT !.hook = RecordHook(Append(w.hook.log, msg))]
    ELSE w

\* warnings.resetwarnings()
ResetWarnings(w) == [w EXCEPT !.filters = << >>]

RECURSIVE WarnAll(_, _, _)
WarnAll(w, msgs, k) == IF k > Len(msgs) THEN w ELSE WarnAll(Warn(w, msgs[k]), msgs, k + 1)

(***************************************************************************)
(* Calling a method of the registry: the arguments are bound to the        *)
(* parameters as Python binds them, then the body runs.  A call gives      *)
(* [out, w, emitted]: what it returned or raised, the warnings module      *)
(* after it, and the messages it handed to warn().                         *)
(***************************************************************************)
Params(m) ==
    CASE m.name = "method" -> << >>
      [] m.name \in {"integer_function", "string_function"} -> << "arg" >>
      [] m.name = "single_warning" -> << "warning_text", "error" >>
      [] m.name = "multiple_warnings" -> << "warning_count", "error" >>
      [] m.name = "increment" -> << "x" >>
      [] OTHER -> << >>

Defaults(m) ==
    CASE m.name = "integer_function" -> Attrs1("arg", PyInt(1234))
      [] m.name = "string_function" -> Attrs1("arg", PyStr("this is a string property"))
      [] m.name = "single_warning" -> Attrs1("error", PyBool(FALSE))
      [] m.name = "multiple_warnings" ->
            [n \in {"warning_count", "error"} |->
                IF n = "error" THEN PyBool(FALSE) ELSE PyInt(1)]
      [] OTHER -> NoAttrs

Position(params, n) == CHOOSE k \in 1..Len(params) : params[k] = n

\* method(*args, **kwargs): the binding of arguments to parameters
Bind(m, args, kwargs) ==
    LET params == Params(m)
        defaults == Defaults(m)
        given(n) == Position(params, n) <= Len(args) \/ n \in DOMAIN kwargs
        missing == {n \in SeqToSet(params) : ~given(n) /\ n \notin DOMAIN defaults}
    IN IF Len(args) > Len(params)
       THEN Raise("TypeError", m.name \o "() takes " \o NatStr(Len(params) + 1)
                               \o " positional arguments but " \o NatStr(Len(args) + 1)
                               \o " were given")
       ELSE IF \E n \in DOMAIN kwargs : n \notin SeqToSet(params)
       THEN Raise("TypeError", m.name \o "() got an unexpected keyword argument")
       ELSE IF \E n \in DOMAIN kwargs : Position(params, n) <= Len(args)
       THEN Raise("TypeError", m.name \o "() got multiple values for an argument")
       ELSE IF missing # {}
       THEN Raise("TypeError", m.name \o "() missing " \o NatStr(Cardinality(missing))
                               \o " required positional argument")
       ELSE Return([n \in SeqToSet(params) |->
                      IF Position(params, n) <= Len(args) THEN args[Position(params, n)]
                      ELSE IF n \in DOMAIN kwargs THEN kwargs[n]
                      ELSE defaults[n]])

Truthy(v) ==
    CASE v.t = "None" -> FALSE
      [] v.t = "bool" -> v.b
      [] v.t = "int" -> v.n # 0
      [] v.t = "str" -> v.s # ""
      [] v.t = "list" -> Len(v.xs) > 0
      [] v.t = "dict" -> DOMAIN v.d # {}
      [] OTHER -> TRUE

\* an instance of a class that no codec serializes
Unserializable == [t |-> "object"]

Outcome(out, w, emitted) == [out |-> out, w |-> w, emitted |-> emitted]

WarningTexts(n) == [k \in 1..n |-> "Warning " \o NatStr(k)]

\* the methods of the compiled test module's Wrapper, as the tests call them:
\* increment adds one to every element of a list of numbers and refuses any other
\* argument; unserializable returns an object that no codec encodes
WrapperBody(m, a, w) ==
    CASE m.name = "increment" ->
            IF a.x.t = "list" /\ \A k \in 1..Len(a.x.xs) : a.x.xs[k].t = "int"
            THEN Outcome(Return(PyList([k \in 1..Len(a.x.xs) |-> PyInt(a.x.xs[k].n + 1)])),
                         w, << >>)
            ELSE Outcome(Raise("TypeError", "increment(): incompatible function arguments."),
                         w, << >>)
      [] m.name = "unserializable" -> Outcome(Return(Unserializable), w, << >>)

\* the bodies of the registry's methods
Body(m, a, w) ==
    CASE m.name = "method" -> Outcome(Return(PyStr("expected return value")), w, << >>)
      [] m.name = "_tuber_reset" -> Outcome(Return(PyBool(TRUE)), w, << >>)
      [] m.name = "integer_function" ->
            IF a.arg.t = "int" THEN Outcome(Return(a.arg), w, << >>)
            ELSE Outcome(Raise("AssertionError", ""), w, << >>)
      [] m.name = "string_function" ->
            IF a.arg.t = "str" THEN Outcome(Return(a.arg), w, << >>)
            ELSE Outcome(Raise("AssertionError", ""), w, << >>)
      [] m.name = "single_warning" ->
            LET msg == PyFormat(a.warning_text)
                w2 == Warn(ResetWarnings(w), msg)
            IN IF Truthy(a.error) THEN Outcome(Raise("RuntimeError", "Oops!"), w2, << msg >>)
               ELSE Outcome(Return(PyBool(TRUE)), w2, << msg >>)
      [] m.name = "multiple_warnings" ->
            IF a.warning_count.t # "int"
            THEN Outcome(Raise("TypeError", "'" \o a.warning_count.t
                                 \o "' object cannot be interpreted as an integer"),
                         ResetWarnings(w), << >>)
            ELSE LET msgs == WarningTexts(a.warning_count.n)
                     w2 == WarnAll(ResetWarnings(w), msgs, 1)
                 IN IF Truthy(a.error) THEN Outcome(Raise("RuntimeError", "Oops!"), w2, msgs)
                    ELSE Outcome(Return(PyBool(TRUE)), w2, msgs)
      [] m.name \in {"increment", "unserializable"} -> WrapperBody(m, a, w)
      [] m.name = "tuber_meta" -> Outcome(Return(PyDict(tuber_meta(PyRef(m.id)))), w, << >>)

\* the body runs if the arguments bind, else the binding's TypeError is the outcome
Run(m, b, w) == IF b.ok THEN Body(m, b.val, w) ELSE Outcome(b, w, << >>)

\* method(*args, **kwargs) for any value fetched by getattr.  The requests of the
\* model never name TuberContainer.tuber_call, whose body is not modelled.
Call(m, args, kwargs, w) ==
    IF ~Callable(m)
    THEN Outcome(Raise("TypeError", "'" \o ClassName(m) \o "' object is not callable"), w, << >>)
    ELSE Run(m, Bind(m, args, kwargs), w)

(***************************************************************************)
(* The result envelope: result_response, error_response.  An envelope is a *)
(* function from a subset of {"result", "error", "warnings"}.              *)
(***************************************************************************)
\* {"result": kwargs or arg}
result_response(arg, kwargs) ==
    [k \in {"result"} |-> IF DOMAIN kwargs # {} THEN PyDict(kwargs) ELSE arg]

\* error_message as it would be if the envelope kept a result key beside error
error_message_with_result(text) ==
    [k \in {"error", "result"} |-> IF k = "error" THEN [message |-> text] ELSE PyNone]

\* error_response(message) for a message that is already a string
error_message(text) == [k \in {"error"} |-> [message |-> text]]

\* error_response as it would be if the message were str(e) alone
error_response_text_only(e) == error_message(e.text)

\* error_response(e) for an exception: "<class name>: <str(e)>"
error_response(e) == error_message(e.cls \o ": " \o e.text)

\* response["warnings"] = [str(w.message) for w in wlist]
WithWarnings(response, wlist) ==
    [k \in DOMAIN response \cup {"warnings"} |->
        IF k = "warnings" THEN wlist ELSE response[k]]

(***************************************************************************)
(* Key tests and subscripts on a decoded request item, which is a dict in  *)
(* a well-formed request and any decoded value otherwise.                  *)
(***************************************************************************)
Contains(s, sub) ==
    \E k \in 1..(Len(s) - Len(sub) + 1) : SubSeq(s, k, k + Len(sub) - 1) = sub

\* key in request
HasKey(request, key) ==
    CASE request.t = "dict" -> Return(key \in DOMAIN request.d)
      [] request.t = "list" -> Return(InSeq(PyStr(key), request.xs))
      [] request.t = "str" -> Return(Contains(request.s, key))
      [] OTHER -> Raise("TypeError", "argument of type '" \o ClassName(request)
                                     \o "' is not iterable")

\* request[key]
Subscript(request, key) ==
    CASE request.t = "dict" ->
            IF key \in DOMAIN request.d THEN Return(request.d[key])
            ELSE Raise("KeyError", "'" \o key \o "'")
      [] request.t = "list" ->
            Raise("TypeError", "list indices must be integers or slices, not str")
      [] request.t = "str" -> Raise("TypeError", "string indices must be integers")
      [] OTHER -> Raise("TypeError", "'" \o ClassName(request) \o "' object is not subscriptable")

\* request[key] if key in request else default
KeyOr(request, key, default) ==
    LET h == HasKey(request, key) IN
    IF ~h.ok THEN h ELSE IF h.val THEN Subscript(request, key) ELSE Return(default)

(***************************************************************************)
(* describe: the slow path of the dispatcher.                              *)
(***************************************************************************)
\* list(registry), the root names in the order of the registry
RootNames ==
    << "NullObject", "ObjectWithMethod", "ObjectWithProperty", "ObjectWithPrivateMethod",
       "ObjectWithContainerProperties", "ObjectList", "Types", "Warnings", "Wrapper",
       "Protected" >>

\* DescribeAttribute as it would be if an attribute that is a tuber object were
\* always described recursively
DescribeAttribute_always_recursive(objname, propertyname, resolve, attr) ==
    IF ~attr.ok
    THEN Raise("AttributeError", "'" \o PyFormat(objname) \o "' object has no attribute '"
                                 \o propertyname \o "'")
    ELSE IF IsTuberObject(attr.val)
    THEN Return(result_response(PyNone, resolve_object(attr.val, TRUE).d))
    ELSE IF ~Callable(attr.val)
    THEN Return(result_response(attr.val, NoAttrs))
    ELSE Return(result_response(PyNone, resolve_method(attr.val).d))

\* the part of describe after hasattr(obj, propertyname) and attr = getattr(...)
DescribeAttribute(objname, propertyname, resolve, attr) ==
    IF ~attr.ok
    THEN Raise("AttributeError", "'" \o PyFormat(objname) \o "' object has no attribute '"
                                 \o propertyname \o "'")
    ELSE IF IsTuberObject(attr.val)
    THEN Return(result_response(PyNone, resolve_object(attr.val, Truthy(resolve)).d))
    ELSE IF ~Callable(attr.val)
    THEN Return(result_response(attr.val, NoAttrs))
    ELSE Return(result_response(PyNone, resolve_method(attr.val).d))

\* the part of describe after obj = registry[objname]
DescribeObject(request, objname, methodname, propertyname, resolve, obj) ==
    IF ~obj.ok THEN obj
    ELSE IF ~Truthy(methodname) /\ ~Truthy(propertyname)
    THEN \* object metadata
         Return(result_response(PyNone, resolve_object(obj.val, Truthy(resolve)).d))
    ELSE IF Truthy(propertyname)
    THEN IF propertyname.t # "str"
         THEN Raise("TypeError", "attribute name must be string, not '"
                                 \o ClassName(propertyname) \o "'")
         ELSE DescribeAttribute(objname, propertyname.s, resolve,
                                GetAttr(obj.val, propertyname.s))
    ELSE Raise("ValueError", "Invalid request (" \o PyRepr(request) \o ")")

\* the part of describe after the four keys are read
DescribeKeys(request, objname, methodname, propertyname, resolve) ==
    IF ~objname.ok THEN objname
    ELSE IF ~methodname.ok THEN methodname
    ELSE IF ~propertyname.ok THEN propertyname
    ELSE IF ~resolve.ok THEN resolve
    ELSE IF ~Truthy(objname.val) /\ ~Truthy(methodname.val) /\ ~Truthy(propertyname.val)
    THEN \* registry metadata
         IF Truthy(resolve.val)
         THEN Return(result_response(PyNone,
                Attrs1("objects", PyDict([n \in DOMAIN registry |->
                                            resolve_object(registry[n], TRUE)]))))
         ELSE Return(result_response(PyNone, Attrs1("objects", StrList(RootNames))))
    ELSE DescribeObject(request, objname.val, methodname.val, propertyname.val, resolve.val,
                        RegistryGetItem(objname.val))

describe(request) ==
    DescribeKeys(request,
                 KeyOr(request, "object", PyNone),
                 KeyOr(request, "method", PyNone),
                 KeyOr(request, "property", PyNone),
                 KeyOr(request, "resolve", PyBool(FALSE)))

(***************************************************************************)
(* invoke: the command path of the dispatcher.  It gives the envelope, the *)
(* warnings module as the call leaves it, and what happened on the way:    *)
(* the method it called (if any), whether the warning capture scope was    *)
(* entered, the exception it shaped into the envelope (if any) and the     *)
(* warnings the method emitted.                                            *)
(***************************************************************************)
NoCall == [t |-> "None"]

Dispatched(response, w, called, scoped, failure, emitted) ==
    [response |-> response, w |-> w, called |-> called, scoped |-> scoped,
     failure |-> failure, emitted |-> emitted]

\* try: response = result_response(method(*args, **kwargs))
\* except Exception as e: response = error_response(e)
CallResponse(c) ==
    IF c.out.ok THEN result_response(c.out.val, NoAttrs) ELSE error_response(c.out.exc)

\* Captured as it would be if the warnings were attached only when the call returned
Captured_on_success_only(method, w, c) ==
    Dispatched(IF Len(c.w.hook.log) > 0 /\ c.out.ok
               THEN WithWarnings(CallResponse(c), c.w.hook.log)
               ELSE CallResponse(c),
               CatchWarningsExit(w, c.w),
               method, TRUE,
               IF c.out.ok THEN << >> ELSE << c.out.exc >>,
               c.emitted)

\* the with block of invoke, given what the call did under the recording hook
Captured(method, w, c) ==
    Dispatched(IF Len(c.w.hook.log) > 0 THEN WithWarnings(CallResponse(c), c.w.hook.log)
               ELSE CallResponse(c),
               CatchWarningsExit(w, c.w),
               method, TRUE,
               IF c.out.ok THEN << >> ELSE << c.out.exc >>,
               c.emitted)

\* Invocation as it would be if the recording list were made once and kept: the
\* hook is not put back, and the next call records into the same list
Invocation_recording_left_on(method, args, kwargs, w) ==
    Captured(method,
             Call(method, args, kwargs,
                  IF w.hook.kind = "record" THEN w ELSE CatchWarningsEnter(w)).w,
             Call(method, args, kwargs,
                  IF w.hook.kind = "record" THEN w ELSE CatchWarningsEnter(w)))

\* with warnings.catch_warnings(record=True) as wlist: ...
Invocation(method, args, kwargs, w) ==
    Captured(method, w, Call(method, args, kwargs, CatchWarningsEnter(w)))

\* What the try block of invoke comes to: an exception, the envelope describe
\* returned, or the method and arguments it leaves for the with block.
Described(r) == IF r.ok THEN Return([returned |-> TRUE, response |-> r.val]) ELSE r

Prepared(method, args, kwargs) ==
    Return([returned |-> FALSE, method |-> method, args |-> args, kwargs |-> kwargs])

\* And as it would be if the key method alone made a request a call
And_method_alone(a, b) == b

\* "object" in request and "method" in request
And(a, b) == IF ~a.ok \/ ~a.val THEN a ELSE b

\* getattr(obj, methodname)
GetMethod(obj, methodname) ==
    IF methodname.t # "str"
    THEN Raise("TypeError", "attribute name must be string, not '"
                            \o ClassName(methodname) \o "'")
    ELSE GetAttr(obj, methodname.s)

\* TryArguments as it would be without the two isinstance checks: method(*args,
\* **kwargs) then takes whatever args unpacks to
TryArguments_without_type_checks(objname, methodname, method, args, kwargs) ==
    IF ~method.ok THEN method
    ELSE IF ~args.ok THEN args
    ELSE IF ~kwargs.ok THEN kwargs
    ELSE Prepared(method.val,
                  IF IsList(args.val) THEN args.val.xs ELSE << args.val >>,
                  IF IsDict(kwargs.val) THEN kwargs.val.d ELSE NoAttrs)

\* args and kwargs are read and their types are checked
TryArguments(objname, methodname, method, args, kwargs) ==
    IF ~method.ok THEN method
    ELSE IF ~args.ok THEN args
    ELSE IF ~IsList(args.val)
    THEN Raise("TypeError", "Argument 'args' for method " \o PyFormat(objname)
                            \o "." \o methodname.s \o " must be a list.")
    ELSE IF ~kwargs.ok THEN kwargs
    ELSE IF ~IsDict(kwargs.val)
    THEN Raise("TypeError", "Argument 'kwargs' for method " \o PyFormat(objname)
                            \o "." \o methodname.s \o " must be a dict.")
    ELSE Prepared(method.val, args.val.xs, kwargs.val.d)

\* obj = registry[objname]; methodname = request["method"]; method = getattr(...)
TryMethod(request, objname, obj, methodname) ==
    IF ~obj.ok THEN obj
    ELSE IF ~methodname.ok THEN methodname
    ELSE TryArguments(objname, methodname.val, GetMethod(obj.val, methodname.val),
                      KeyOr(request, "args", PyList(<< >>)),
                      KeyOr(request, "kwargs", PyDict(NoAttrs)))

\* objname = request["object"]
TryObject(request, objname) ==
    IF ~objname.ok THEN objname
    ELSE TryMethod(request, objname.val, RegistryGetItem(objname.val),
                   Subscript(request, "method"))

\* which branch of the try block a request took: "describe" when invoke handed it to
\* describe, "invoke" when it went on to the lookup of the method, "none" when the
\* key test itself raised
Pathed(path, r) == [path |-> path, r |-> r]

\* the try block of invoke
TryDispatch(request, iscall) ==
    IF ~iscall.ok THEN Pathed("none", iscall)
    ELSE IF ~iscall.val THEN Pathed("describe", Described(describe(request)))
    ELSE Pathed("invoke", TryObject(request, Subscript(request, "object")))

\* the outcome of invoke with the branch it took
Routed(d, path) == [f \in DOMAIN d \cup {"path"} |-> IF f = "path" THEN path ELSE d[f]]

\* the except clause and the return of the try block, else the with block
Completion(t, w) ==
    IF ~t.ok THEN Dispatched(error_response(t.exc), w, NoCall, FALSE, << t.exc >>, << >>)
    ELSE IF t.val.returned THEN Dispatched(t.val.response, w, NoCall, FALSE, << >>, << >>)
    ELSE Invocation(t.val.method, t.val.args, t.val.kwargs, w)

Complete(t, w) == Routed(Completion(t.r, w), t.path)

invoke(request, w) ==
    Complete(TryDispatch(request, And(HasKey(request, "object"), HasKey(request, "method"))), w)

(***************************************************************************)
(* The codecs of the request handler.  An encoded body is the value        *)
(* wrapped with the media type of the codec that wrote it; bytes that no   *)
(* codec wrote are Garbage.  A response is one envelope or a list of       *)
(* envelopes.                                                              *)
(***************************************************************************)
JSON == "application/json"
CBOR == "application/cbor"

\* RequestHandler.codecs after __init__
HandlerCodecs == {JSON, CBOR}

\* RequestHandler.default_format
DefaultFormat == JSON

Garbage == [fmt |-> "none"]
Encoded(fmt, data) == [fmt |-> fmt, data |-> data]

Single(env) == [islist |-> FALSE, env |-> env]
Listed(envs) == [islist |-> TRUE, envs |-> envs]

RECURSIVE Serializable(_)
Serializable(v) ==
    CASE v.t \in {"None", "str", "int", "bool"} -> TRUE
      [] v.t = "list" -> \A k \in 1..Len(v.xs) : Serializable(v.xs[k])
      [] v.t = "dict" -> \A n \in DOMAIN v.d : Serializable(v.d[n])
      [] OTHER -> FALSE

EnvSerializable(env) == "result" \in DOMAIN env => Serializable(env.result)

\* codec.encode(data): an unsupported value is an encode error
CodecEncode(fmt, data) ==
    IF (IF data.islist THEN \A k \in 1..Len(data.envs) : EnvSerializable(data.envs[k])
        ELSE EnvSerializable(data.env))
    THEN Return(Encoded(fmt, data))
    ELSE IF fmt = JSON
    THEN Raise("TypeError", "Object of type Unserializable is not JSON serializable")
    ELSE Raise("CBOREncodeTypeError", "cannot serialize type Unserializable")

\* codec.decode(data): the bytes must be what this codec wrote
CodecDecode(fmt, body) ==
    IF body.fmt = fmt THEN Return(body.data)
    ELSE IF fmt = JSON THEN Raise("JSONDecodeError", "Expecting value: line 1 column 1 (char 0)")
    ELSE Raise("CBORDecodeEOF", "premature end of stream")

\* RequestHandler.encode, without validation: (fmt, codecs[fmt].encode(data))
HandlerEncode(data, fmt) ==
    LET b == CodecEncode(fmt, data) IN
    IF b.ok THEN Return([fmt |-> fmt, body |-> b.val]) ELSE b

\* RequestHandler.decode, without validation
HandlerDecode(body, fmt) == CodecDecode(fmt, body)

(***************************************************************************)
(* Header parsing of RequestHandler.handle.                                *)
(***************************************************************************)
HeaderOr(hdrs, name, default) == IF name \in DOMAIN hdrs THEN hdrs[name] ELSE default

\* RequestFormat as it would be if an unknown Content-Type fell back to the default
RequestFormat_falls_back(hdrs) ==
    Return(IF HeaderOr(hdrs, "Content-Type", DefaultFormat) \in HandlerCodecs
           THEN HeaderOr(hdrs, "Content-Type", DefaultFormat)
           ELSE DefaultFormat)

\* the Content-Type check: the request format, or ValueError
RequestFormat(hdrs) ==
    LET content_type == HeaderOr(hdrs, "Content-Type", DefaultFormat) IN
    IF content_type \notin HandlerCodecs
    THEN Raise("ValueError", "Not able to decode media type " \o content_type)
    ELSE Return(content_type)

\* FirstCodec as it would be without the break: the last accept type that names a
\* codec wins
RECURSIVE FirstCodec_last_match(_, _)
FirstCodec_last_match(accept_types, k) ==
    IF k > Len(accept_types) THEN ""
    ELSE IF FirstCodec_last_match(accept_types, k + 1) # ""
    THEN FirstCodec_last_match(accept_types, k + 1)
    ELSE IF accept_types[k] \in HandlerCodecs THEN accept_types[k]
    ELSE ""

\* the first accept type that names a codec (the for ... else of handle)
RECURSIVE FirstCodec(_, _)
FirstCodec(accept_types, k) ==
    IF k > Len(accept_types) THEN ""
    ELSE IF accept_types[k] \in HandlerCodecs THEN accept_types[k]
    ELSE FirstCodec(accept_types, k + 1)

\* the Accept check: the response format, or ValueError
ResponseFormat(hdrs, request_format) ==
    IF "Accept" \notin DOMAIN hdrs THEN Return(request_format)
    ELSE LET accept_types == StripAll(SplitComma(hdrs["Accept"])) IN
         IF InSeq("*/*", accept_types) \/ InSeq("application/*", accept_types)
         THEN Return(request_format)
         ELSE IF FirstCodec(accept_types, 1) # ""
         THEN Return(FirstCodec(accept_types, 1))
         ELSE Raise("ValueError", "Not able to encode any media type matching "
                                  \o hdrs["Accept"])

\* ContinueOnError as it would be without the strip() of the tokens
ContinueOnError_without_strip(hdrs) ==
    InSeq("continue-on-error", SplitComma(HeaderOr(hdrs, "X-Tuber-Options", "")))

\* "continue-on-error" in [v.strip() for v in headers.get("X-Tuber-Options", "").split(",")]
ContinueOnError(hdrs) ==
    InSeq("continue-on-error", StripAll(SplitComma(HeaderOr(hdrs, "X-Tuber-Options", ""))))

(***************************************************************************)
(* RequestHandler.handle as a state machine.  Handle takes a request from  *)
(* the transport and runs handle up to its loop over a batch (a single     *)
(* request is answered at once); LoopStep is one iteration of the loop;    *)
(* Finish encodes the results; Respond hands the response to the           *)
(* transport.  dispatch_log records, for the request being handled, every  *)
(* call of invoke: the index of the item and what the call did.            *)
(***************************************************************************)
VARIABLES
    pc,                 \* "idle", "loop" (inside the for loop), "done" (handle returned)
    headers,            \* the headers of the request being handled
    request_obj,        \* the decoded request
    response_format,    \* the response format as bound when handle encodes
    continue_on_error,
    results,            \* the list results of handle
    i,                  \* how many items the loop has gone through
    early_bail,
    response,           \* what handle returned: (response_format, body)
    warnings_module,    \* the process-wide state of the warnings module
    dispatch_log

server_vars == << registry, heap, pc, headers, request_obj, response_format, continue_on_error, results, i,
                  early_bail, response, warnings_module, dispatch_log >>

NoEnvelope == [k \in {"none"} |-> PyNone]
NoResponse == [fmt |-> "none"]

ServerInit ==
    /\ RegistryInit
    /\ pc = "idle"
    /\ headers = [n \in {} |-> ""]
    /\ request_obj = PyNone
    /\ response_format = DefaultFormat
    /\ continue_on_error = FALSE
    /\ results = << >>
    /\ i = 0
    /\ early_bail = FALSE
    /\ response = NoResponse
    /\ warnings_module = InitialWarnings
    /\ dispatch_log = << >>

Logged(index, d) ==
    [index |-> index, path |-> d.path, called |-> d.called, scoped |-> d.scoped,
     failure |-> d.failure, emitted |-> d.emitted, response |-> d.response]

\* return encode(data), with the except clause of handle around it
Encoding(data, fmt) ==
    LET enc == HandlerEncode(data, fmt) IN
    IF enc.ok THEN enc.val
    ELSE HandlerEncode(Single(error_response(enc.exc)), fmt).val

\* handle returns encode(data) (or what the except clause makes of its failure)
Returns(data, fmt) ==
    /\ response' = Encoding(data, fmt)
    /\ response_format' = fmt
    /\ pc' = "done"

\* the except clause of handle for an exception raised before the loop
Fails(e, fmt) ==
    /\ Returns(Single(error_response(e)), fmt)
    /\ UNCHANGED << warnings_module >>
    /\ request_obj' = PyNone
    /\ continue_on_error' = FALSE
    /\ results' = << >>
    /\ dispatch_log' = << >>

\* the single request: return encode(self.invoke(request_obj))
SingleRequest(request, fmt, d) ==
    /\ Returns(Single(d.response), fmt)
    /\ warnings_module' = d.w
    /\ request_obj' = request
    /\ continue_on_error' = FALSE
    /\ results' = << >>
    /\ dispatch_log' = << Logged(0, d) >>

\* the sequence of requests: results and early_bail are set up for the loop
BatchRequest(request, fmt, hdrs) ==
    /\ request_obj' = request
    /\ response_format' = fmt
    /\ continue_on_error' = ContinueOnError(hdrs)
    /\ results' = [k \in 1..Len(request.xs) |-> NoEnvelope]
    /\ dispatch_log' = << >>
    /\ pc' = "loop"
    /\ response' = NoResponse
    /\ UNCHANGED warnings_module

\* Decoded as it would be if the errors of handle were encoded in the default format
Decoded_default_format(hdrs, fmt, decoded) ==
    IF ~decoded.ok THEN Fails(decoded.exc, DefaultFormat)
    ELSE IF IsDict(decoded.val)
    THEN SingleRequest(decoded.val, fmt, invoke(decoded.val, warnings_module))
    ELSE IF ~IsList(decoded.val)
    THEN Fails(Exc("TypeError", "Unexpected type in request"), DefaultFormat)
    ELSE BatchRequest(decoded.val, fmt, hdrs)

\* handle after request_obj = decode(request)
Decoded(hdrs, fmt, decoded) ==
    IF ~decoded.ok THEN Fails(decoded.exc, fmt)
    ELSE IF IsDict(decoded.val)
    THEN SingleRequest(decoded.val, fmt, invoke(decoded.val, warnings_module))
    ELSE IF ~IsList(decoded.val)
    THEN Fails(Exc("TypeError", "Unexpected type in request"), fmt)
    ELSE BatchRequest(decoded.val, fmt, hdrs)

\* handle after the Accept header is parsed
Accepted(body, hdrs, request_format, accepted) ==
    IF ~accepted.ok THEN Fails(accepted.exc, request_format)
    ELSE Decoded(hdrs, accepted.val, HandlerDecode(body, request_format))

\* handle after the Content-Type header is parsed
Typed(body, hdrs, request_format) ==
    IF ~request_format.ok THEN Fails(request_format.exc, DefaultFormat)
    ELSE Accepted(body, hdrs, request_format.val, ResponseFormat(hdrs, request_format.val))

\* Handle as it would be if handling a request unbound the roots of the registry
Handle_unbinds_roots(body, hdrs) ==
    /\ pc = "idle"
    /\ registry' = [n \in {} |-> PyNone]
    /\ heap' = heap
    /\ headers' = hdrs
    /\ i' = 0
    /\ early_bail' = FALSE
    /\ Typed(body, hdrs, RequestFormat(hdrs))

Handle(body, hdrs) ==
    /\ pc = "idle"
    /\ UNCHANGED registry_vars
    /\ headers' = hdrs
    /\ i' = 0
    /\ early_bail' = FALSE
    /\ Typed(body, hdrs, RequestFormat(hdrs))

\* Iteration as it would be if early_bail were cleared by the item it skips
Iteration_bails_once(d) ==
    IF early_bail
    THEN /\ results' = [results EXCEPT ![i + 1] =
                           error_message("Something went wrong in a preceding call")]
         /\ early_bail' = FALSE
         /\ UNCHANGED << warnings_module, dispatch_log >>
    ELSE /\ results' = [results EXCEPT ![i + 1] = d.response]
         /\ warnings_module' = d.w
         /\ dispatch_log' = Append(dispatch_log, Logged(i + 1, d))
         /\ early_bail' = ("error" \in DOMAIN d.response /\ ~continue_on_error)

\* Iteration as it would be if invoke ran before early_bail is looked at
Iteration_invokes_before_bailing(d) ==
    /\ results' = [results EXCEPT ![i + 1] =
                      IF early_bail
                      THEN error_message("Something went wrong in a preceding call")
                      ELSE d.response]
    /\ warnings_module' = d.w
    /\ dispatch_log' = Append(dispatch_log, Logged(i + 1, d))
    /\ early_bail' = (early_bail \/ ("error" \in DOMAIN d.response /\ ~continue_on_error))

\* the body of the loop, d being what invoke(r) would do
Iteration(d) ==
    IF early_bail
    THEN /\ results' = [results EXCEPT ![i + 1] =
                           error_message("Something went wrong in a preceding call")]
         /\ UNCHANGED << early_bail, warnings_module, dispatch_log >>
    ELSE /\ results' = [results EXCEPT ![i + 1] = d.response]
         /\ warnings_module' = d.w
         /\ dispatch_log' = Append(dispatch_log, Logged(i + 1, d))
         /\ early_bail' = ("error" \in DOMAIN d.response /\ ~continue_on_error)

\* one iteration of: for i, r in enumerate(request_obj)
LoopStep ==
    /\ pc = "loop"
    /\ i < Len(request_obj.xs)
    /\ i' = i + 1
    /\ Iteration(invoke(request_obj.xs[i + 1], warnings_module))
    /\ UNCHANGED << pc, headers, request_obj, response_format, continue_on_error, response >>
    /\ UNCHANGED registry_vars

\* return encode(results)
Finish ==
    /\ pc = "loop"
    /\ i = Len(request_obj.xs)
    /\ Returns(Listed(results), response_format)
    /\ UNCHANGED << headers, request_obj, continue_on_error, results, i, early_bail,
                    warnings_module, dispatch_log >>
    /\ UNCHANGED registry_vars

\* the transport sends the response and the locals of handle are gone; the warnings
\* module is the state that outlives the request
Respond ==
    /\ pc = "done"
    /\ pc' = "idle"
    /\ headers' = [n \in {} |-> ""]
    /\ request_obj' = PyNone
    /\ response_format' = DefaultFormat
    /\ continue_on_error' = FALSE
    /\ results' = << >>
    /\ i' = 0
    /\ early_bail' = FALSE
    /\ response' = NoResponse
    /\ dispatch_log' = << >>
    /\ UNCHANGED warnings_module
    /\ UNCHANGED registry_vars

(***************************************************************************)
(* Request records and header maps.                                        *)
(***************************************************************************)
Req2(k1, v1, k2, v2) == PyDict([k \in {k1, k2} |-> IF k = k1 THEN v1 ELSE v2])
Req3(k1, v1, k2, v2, k3, v3) ==
    PyDict([k \in {k1, k2, k3} |-> IF k = k1 THEN v1 ELSE IF k = k2 THEN v2 ELSE v3])
Req4(k1, v1, k2, v2, k3, v3, k4, v4) ==
    PyDict([k \in {k1, k2, k3, k4} |->
              IF k = k1 THEN v1 ELSE IF k = k2 THEN v2 ELSE IF k = k3 THEN v3 ELSE v4])

Hdr1(k1, v1) == [k \in {k1} |-> v1]
Hdr2(k1, v1, k2, v2) == [k \in {k1, k2} |-> IF k = k1 THEN v1 ELSE v2]

NoHeaders == [k \in {} |-> ""]

(***************************************************************************)
(* The client (client.py): SimpleContext, the serial context, and Context, *)
(* the cooperative one.  Both queue calls and send them as one batch.  In  *)
(* the cooperative context _add_call gives every call a future (the handle *)
(* of the call); __call__ pops the queue, posts the batch on the session   *)
(* of the running event loop, is suspended until the response is read,     *)
(* resolves the futures from the envelopes and then awaits them in order.  *)
(* The serial context queues the request alone, posts with requests.post   *)
(* and builds the list of results from the envelopes.                      *)
(***************************************************************************)
VARIABLES
    cpc,                \* "none", "open" (the scope is open), "posted" (__call__ is
                        \* inside the POST), "closed" (the scope has been left)
    mode,               \* "serial" (SimpleContext) or "cooperative" (Context)
    ctx_obj,            \* obj._tuber_objname of the context; "" is None, the registry
    ctx_kwargs,         \* the keyword arguments the context was made with
    calls,              \* self.calls: the queued requests, each with its future
    futures,            \* every future the context has made, in the order of creation
    handles,            \* what each ctx.<...>(...) returned: the number of a future, 0
                        \* for None
    flight,             \* the locals of the __call__ that is inside the POST
    json_out,           \* the decoded response of the last flush
    flushed,            \* how the last __call__ ended
    last_flush,         \* the batch of the last __call__ that ended, and how far the
                        \* response was read
    client_warnings,    \* the messages the client has handed to warnings.warn
    trace,              \* what the last __call__ did with the envelopes, in order
    loops,              \* the event loops: _tuber_session, the patch of close
    sessions,           \* every aiohttp.ClientSession made, in the order of creation
    running             \* the running event loop, 0 when none runs

context_vars == << mode, ctx_obj, ctx_kwargs >>
queue_vars == << calls, futures, handles >>
flush_vars == << flight, json_out, flushed, last_flush, client_warnings, trace >>
loop_vars == << loops, sessions, running >>

client_vars == << cpc, context_vars, queue_vars, flush_vars, loop_vars >>

Pending == [state |-> "pending"]
\* f.set_result(v), f.set_exception(e)
Resolved(v) == [state |-> "result", value |-> v]
Failed(cls, text) == [state |-> "exception", exc |-> Exc(cls, text)]

NoFlight == [requests |-> << >>, futures |-> << >>, continue_on_error |-> FALSE,
             exiting |-> FALSE, session |-> 0]
NoFlush == [kind |-> "none"]
Returned(values) == [kind |-> "returned", values |-> values]
Raised(e) == [kind |-> "raised", exc |-> e]
\* an await of a future that nothing will ever resolve
Blocked == [kind |-> "blocked"]

\* the batch of a __call__ that has ended; read is how far it got: "decoded" (the
\* response was decoded), "status", "content type" (the response was refused),
\* "cancelled" (in the POST), "unstarted" (cancelled before its first step), "empty"
\* (nothing was queued)
Flushed(fl, read) ==
    [requests |-> fl.requests, futures |-> fl.futures,
     continue_on_error |-> fl.continue_on_error, exiting |-> fl.exiting, read |-> read]

NoLastFlush == Flushed(NoFlight, "none")

\* the event loops of the model
LoopIds == {1, 2}

\* a new event loop: no attribute _tuber_session (0), close is the loop's own, and
\* teardown is what the calls of close have done so far
NewLoop == [session |-> 0, patched |-> FALSE, closed |-> FALSE, teardown |-> << >>]

ClientInit ==
    /\ cpc = "none"
    /\ mode = "cooperative"
    /\ ctx_obj = ""
    /\ ctx_kwargs = NoAttrs
    /\ calls = << >>
    /\ futures = << >>
    /\ handles = << >>
    /\ flight = NoFlight
    /\ json_out = Single(NoEnvelope)
    /\ flushed = NoFlush
    /\ last_flush = NoLastFlush
    /\ client_warnings = << >>
    /\ trace = << >>
    /\ loops = [l \in LoopIds |-> NewLoop]
    /\ sessions = << >>
    /\ running = 1

\* the media types the client decodes (the keys of AcceptTypes)
AcceptTypes == << JSON, CBOR >>

\* ", ".join(accept_types)
RECURSIVE Join(_, _)
Join(seq, k) ==
    IF k > Len(seq) THEN ""
    ELSE seq[k] \o (IF k < Len(seq) THEN ", " ELSE "") \o Join(seq, k + 1)

\* the headers of the POST
PostHeaders(continuing) ==
    IF continuing
    THEN Hdr2("Accept", Join(AcceptTypes, 1), "X-Tuber-Options", "continue-on-error")
    ELSE Hdr1("Accept", Join(AcceptTypes, 1))

\* get_object_name(parent, attr=..., item=...): "parent.attr" or "parent[repr(item)]";
\* an absent argument is None
get_object_name(parent, attr, item) ==
    IF attr # PyNone
    THEN IF item # PyNone
         THEN Raise("ValueError", "Only one of 'attr' or 'item' arguments may be provided")
         ELSE Return(parent \o "." \o attr.s)
    ELSE IF item # PyNone THEN Return(parent \o "[" \o PyRepr(item) \o "]")
    ELSE Return(parent)

\* the name of parent[i1][i2]..., x = [attr, i1, i2, ...]
RECURSIVE WithItems(_, _, _)
WithItems(name, x, k) ==
    IF k > Len(x) THEN name
    ELSE WithItems(get_object_name(name, PyNone, x[k]).val, x, k + 1)

\* _resolve_object: the name of the child attr of parent ("" is None, the registry:
\* the child's name is the attribute's), then of its items
ElementName(parent, x) ==
    WithItems(IF parent = "" THEN x[1].s ELSE get_object_name(parent, x[1], PyNone).val,
              x, 2)

RECURSIVE PathName(_, _, _)
PathName(parent, norm, k) ==
    IF k > Len(norm) THEN parent ELSE PathName(ElementName(parent, norm[k].xs), norm, k + 1)

\* the object name the client builds for the node that the list path P selects
StringForm(P) == PathName("", NormalizePath(P), 1)

\* attribute_blacklisted(name)
attribute_blacklisted(name) ==
    StartsWith(name, "_sa") \/ StartsWith(name, "_ipython") \/ StartsWith(name, "_tuber")

\* a SubContext: objname and attrname (None when it stands for an object)
Sub(objname, attrname) == [objname |-> objname, attrname |-> attrname]

\* what a context expression does next: .name or [item]
Attr(name) == [t |-> "attr", name |-> name]
Item(item) == [t |-> "item", item |-> item]

\* SimpleContext.__getattr__(name) and SimpleContext.__getitem__(item); objname is
\* self.obj._tuber_objname, "" for None
ContextStep(objname, op) ==
    IF op.t = "attr"
    THEN IF attribute_blacklisted(op.name)
         THEN Raise("AttributeError", op.name \o " is not a valid method or property!")
         ELSE IF objname = "" THEN Return(Sub(op.name, PyNone))
         ELSE Return(Sub(objname, PyStr(op.name)))
    ELSE Return(Sub(get_object_name(IF objname = "" THEN "None" ELSE objname,
                                    PyNone, op.item).val,
                    PyNone))

\* SubContext.__getattr__(name) and SubContext.__getitem__(item)
SubContextStep(sub, op) ==
    IF op.t = "attr"
    THEN IF attribute_blacklisted(op.name)
         THEN Raise("AttributeError", op.name \o " is not a valid method or property!")
         ELSE Return(Sub(get_object_name(sub.objname, sub.attrname, PyNone).val,
                         PyStr(op.name)))
    ELSE Return(Sub(get_object_name(get_object_name(sub.objname, sub.attrname, PyNone).val,
                                    PyNone, op.item).val,
                    PyNone))

\* ctx.<op 1>.<op 2>...: the SubContext the expression gives, or the AttributeError
RECURSIVE Navigate(_, _, _)
Navigate(r, ops, k) ==
    IF ~r.ok \/ k > Len(ops) THEN r ELSE Navigate(SubContextStep(r.val, ops[k]), ops, k + 1)

\* SubContext.__call__: the request record handed to _add_call
ClientRequest(object, method, args, kwargs) ==
    Req4("object", PyStr(object), "method", PyStr(method),
         "args", PyList(args), "kwargs", PyDict(kwargs))

\* SubContext.__call__ on sub: kwargs.update(self.parent.ctx_kwargs), then the record;
\* method is None when the expression ended on an object
SubCall(sub, args, kwargs, ctxkw) ==
    IF sub.attrname = PyNone
    THEN Req4("object", PyStr(sub.objname), "method", PyNone,
              "args", PyList(args), "kwargs", PyDict(Update(kwargs, ctxkw)))
    ELSE ClientRequest(sub.objname, sub.attrname.s, args, Update(kwargs, ctxkw))

\* what the transport hands to the client: the handler's (format, body) with status
\* 200, or a response that is not the handler's
Delivered(r) == [ok |-> TRUE, status |-> "200", fmt |-> r.fmt, body |-> r.body, text |-> ""]

\* responses that are not the handler's: a status that is not 2xx, a content type
\* the client does not decode
TransportFailures ==
    { [ok |-> FALSE, status |-> "500", fmt |-> "text/plain", body |-> Garbage,
       text |-> "Internal Server Error"],
      [ok |-> TRUE, status |-> "200", fmt |-> "text/html", body |-> Garbage,
       text |-> "<html></html>"] }

\* AcceptTypes[content_type](raw_out, charset): a mapping decodes to a record with
\* dotted access, a sequence to a list
ClientDecode(body) == body.data

\* hasattr(json_out, "error"): a list has no such attribute
HasTopLevelError(out) == ~out.islist /\ "error" \in DOMAIN out.env

\* the envelopes the loops go through
Envelopes(out) == IF out.islist THEN out.envs ELSE << >>

\* the body of the loop for one envelope: what its future is set to
Resolution(r) ==
    IF "error" \in DOMAIN r THEN Failed("TuberRemoteError", r.error.message)
    ELSE IF "result" \in DOMAIN r THEN Resolved(r.result)
    ELSE Failed("TuberError", "Result has no 'result' attribute")

Min(a, b) == IF a < b THEN a ELSE b

\* ResolveFutures as it would be if the futures were taken from the end of the list
ResolveFutures_from_the_end(all, ids, envs) ==
    [n \in 1..Len(all) |->
        IF \E k \in 1..Min(Len(ids), Len(envs)) : ids[Len(ids) + 1 - k] = n
        THEN Resolution(envs[CHOOSE k \in 1..Min(Len(ids), Len(envs)) :
                                ids[Len(ids) + 1 - k] = n])
        ELSE all[n]]

\* for f, r in zip(futures, json_out): the futures of the context after the loop
ResolveFutures(all, ids, envs) ==
    [n \in 1..Len(all) |->
        IF \E k \in 1..Min(Len(ids), Len(envs)) : ids[k] = n
        THEN Resolution(envs[CHOOSE k \in 1..Min(Len(ids), Len(envs)) : ids[k] = n])
        ELSE all[n]]

\* one step of a __call__ on the envelopes: a warning handed to warnings.warn, a
\* future set, an entry appended to results, an exception raised; call is the
\* position of the envelope (0 for the response as a whole)
Event(ev, call, what) == [ev |-> ev, call |-> call, what |-> what]

\* if hasattr(r, "warnings") and r.warnings: for w in r.warnings: warnings.warn(w)
WarnEvents(r, k) ==
    IF "warnings" \in DOMAIN r
    THEN [j \in 1..Len(r.warnings) |-> Event("warn", k, r.warnings[j])]
    ELSE << >>

\* EnvelopeEvents as it would be if the outcome were delivered before the warnings
EnvelopeEvents_outcome_first(r, k, delivery) == << delivery >> \o WarnEvents(r, k)

\* the body of the loop for envelope k: the warnings, then the outcome
EnvelopeEvents(r, k, delivery) == WarnEvents(r, k) \o << delivery >>

\* the messages of the warnings of a trace, in order
RECURSIVE Messages(_, _)
Messages(events, k) ==
    IF k > Len(events) THEN << >>
    ELSE (IF events[k].ev = "warn" THEN << events[k].what >> ELSE << >>)
         \o Messages(events, k + 1)

\* Context.__call__, the loop over zip(futures, json_out)
RECURSIVE CooperativeEvents(_, _, _)
CooperativeEvents(envs, n, k) ==
    IF k > n THEN << >>
    ELSE EnvelopeEvents(envs[k], k, Event("set", k, Resolution(envs[k])))
         \o CooperativeEvents(envs, n, k + 1)

\* return [await f for f in futures]
RECURSIVE AwaitAll(_, _, _, _)
AwaitAll(all, ids, k, values) ==
    IF k > Len(ids) THEN Returned(values)
    ELSE IF all[ids[k]].state = "exception" THEN Raised(all[ids[k]].exc)
    ELSE IF all[ids[k]].state = "pending" THEN Blocked
    ELSE AwaitAll(all, ids, k + 1, Append(values, all[ids[k]].value))

\* the await that raised: the first future of the batch that holds an exception
FirstFailed(all, ids) == CHOOSE k \in 1..Len(ids) :
    /\ all[ids[k]].state = "exception"
    /\ \A j \in 1..(k - 1) : all[ids[j]].state # "exception"

\* how a __call__ ends: flushed, the futures after it, its trace and the decoded
\* response
Ending(how, all, events, out, read) ==
    [flushed |-> how, futures |-> all, events |-> events, json_out |-> out, read |-> read]

\* Context.__call__ from "Resolve futures" to its return, all being the futures as
\* the loop left them
CooperativeEnding(all, ids, envs, out) ==
    Ending(AwaitAll(all, ids, 1, << >>), all,
           CooperativeEvents(envs, Min(Len(ids), Len(envs)), 1)
              \o (IF AwaitAll(all, ids, 1, << >>).kind = "raised"
                  THEN << Event("raise", FirstFailed(all, ids),
                                AwaitAll(all, ids, 1, << >>).exc) >>
                  ELSE << >>),
           out, "decoded")

\* a TuberRemoteError as a value of the list of results
ErrorValue(e) == [t |-> "exception", exc |-> e]

\* SimpleContext.receive, the loop over json_out from envelope k
RECURSIVE SerialLoop(_, _, _, _, _)
SerialLoop(envs, continuing, k, values, events) ==
    IF k > Len(envs) THEN [flushed |-> Returned(values), events |-> events]
    ELSE IF "error" \in DOMAIN envs[k]
    THEN IF continuing
         THEN SerialLoop(envs, continuing, k + 1,
                         Append(values, ErrorValue(Resolution(envs[k]).exc)),
                         events \o EnvelopeEvents(envs[k], k,
                                                  Event("append", k, Resolution(envs[k]))))
         ELSE [flushed |-> Raised(Resolution(envs[k]).exc),
               events |-> events \o EnvelopeEvents(envs[k], k,
                                                   Event("raise", k,
                                                         Resolution(envs[k]).exc))]
    ELSE IF "result" \in DOMAIN envs[k]
    THEN SerialLoop(envs, continuing, k + 1, Append(values, envs[k].result),
                    events \o EnvelopeEvents(envs[k], k,
                                             Event("append", k, Resolution(envs[k]))))
    ELSE [flushed |-> Raised(Resolution(envs[k]).exc),
          events |-> events \o EnvelopeEvents(envs[k], k,
                                              Event("raise", k, Resolution(envs[k]).exc))]

SerialEnding(loop, all, out) == Ending(loop.flushed, all, loop.events, out, "decoded")

\* a __call__ that raises before it looks at any envelope
Refused(e, all, out, read) == Ending(Raised(e), all, << Event("raise", 0, e) >>, out, read)

\* __call__ after the response is decoded, up to its return or raise
Resolve(m, out, fl, all) ==
    IF HasTopLevelError(out)
    THEN Refused(Exc("TuberRemoteError", out.env.error.message), all, out, "decoded")
    ELSE IF m = "serial"
    THEN SerialEnding(SerialLoop(Envelopes(out), fl.continue_on_error, 1, << >>, << >>),
                      all, out)
    ELSE CooperativeEnding(ResolveFutures(all, fl.futures, Envelopes(out)), fl.futures,
                           Envelopes(out), out)

\* __call__ from the end of the POST: the status and the content type are checked,
\* the body is decoded
Received(m, resp, fl, all, out) ==
    IF ~resp.ok
    THEN Refused(Exc("TuberRemoteError",
                     "Request failed with status " \o resp.status \o ": " \o resp.text),
                 all, out, "status")
    ELSE IF ~InSeq(resp.fmt, AcceptTypes)
    THEN Refused(Exc("TuberError", "Unexpected response content type: " \o resp.fmt),
                 all, out, "content type")
    ELSE Resolve(m, ClientDecode(resp.body), fl, all)

\* obj.tuber_context(**ctx_kwargs) of a SimpleTuberObject or a TuberObject
OpenContext(kind) ==
    /\ cpc = "none"
    /\ cpc' = "open"
    /\ mode' = kind.mode
    /\ ctx_obj' = kind.obj
    /\ ctx_kwargs' = kind.kwargs
    /\ UNCHANGED << queue_vars, flush_vars, loop_vars >>

\* ctx.<ops>(*args, **kwargs): __getattr__ refuses a blacklisted name with
\* AttributeError (nothing is queued), else _add_call queues the request, in the
\* cooperative context with a new future, which it returns
\* The calls are made inside the scope: before a flush, or by another task while a
\* cooperative flush of the scope body is suspended in its POST.
AddCall(sub, args, kwargs) ==
    /\ \/ cpc = "open"
       \/ cpc = "posted" /\ mode = "cooperative" /\ ~flight.exiting
    /\ sub.ok
    /\ Len(handles) < MaxBatch
    /\ IF mode = "cooperative"
       THEN /\ futures' = Append(futures, Pending)
            /\ handles' = Append(handles, Len(futures) + 1)
            /\ calls' = Append(calls, [request |-> SubCall(sub.val, args, kwargs, ctx_kwargs),
                                       future |-> Len(futures) + 1])
       ELSE /\ futures' = futures
            /\ handles' = Append(handles, 0)
            /\ calls' = Append(calls, [request |-> SubCall(sub.val, args, kwargs, ctx_kwargs),
                                       future |-> 0])
    /\ UNCHANGED << cpc, context_vars, flush_vars, loop_vars >>

\* ctx(...) with nothing queued: return []
FlushNothing ==
    /\ cpc = "open"
    /\ calls = << >>
    /\ flushed' = Returned(<< >>)
    /\ last_flush' = Flushed(NoFlight, "empty")
    /\ trace' = << >>
    /\ UNCHANGED << cpc, context_vars, queue_vars, flight, json_out, client_warnings,
                    loop_vars >>

\* WithSession as it would be if every flush made a session of its own
WithSession_every_flush(l) ==
    /\ sessions' = Append(sessions, [loop |-> l, state |-> "open"])
    /\ loops' = [loops EXCEPT ![l].session = Len(sessions) + 1, ![l].patched = TRUE]

\* loop._tuber_session = aiohttp.ClientSession(...) and the patch of loop.close, when
\* the running loop has no session yet
WithSession(l) ==
    IF loops[l].session # 0 THEN UNCHANGED << loops, sessions >>
    ELSE /\ sessions' = Append(sessions, [loop |-> l, state |-> "open"])
         /\ loops' = [loops EXCEPT ![l].session = Len(sessions) + 1, ![l].patched = TRUE]

\* Post as it would be if the queue were sent and not emptied
Post_keeps_calls(continuing, exiting) ==
    /\ cpc = "open"
    /\ calls # << >>
    /\ cpc' = "posted"
    /\ calls' = calls
    /\ IF mode = "cooperative"
       THEN /\ running # 0
            /\ WithSession(running)
            /\ flight' = [requests |-> [k \in 1..Len(calls) |-> calls[k].request],
                          futures |-> [k \in 1..Len(calls) |-> calls[k].future],
                          continue_on_error |-> continuing,
                          exiting |-> exiting,
                          session |-> loops'[running].session]
       ELSE /\ UNCHANGED << loops, sessions >>
            /\ flight' = [requests |-> [k \in 1..Len(calls) |-> calls[k].request],
                          futures |-> << >>,
                          continue_on_error |-> continuing,
                          exiting |-> exiting,
                          session |-> 0]
    /\ flushed' = NoFlush
    /\ trace' = << >>
    /\ UNCHANGED << context_vars, futures, handles, json_out, last_flush, client_warnings,
                    running >>

\* __call__ up to the POST: the queue is popped into calls and futures, the
\* cooperative context takes the session of the running loop, and the batch is
\* sent; exiting says that __exit__ or __aexit__ made the call
Post(continuing, exiting) ==
    /\ cpc = "open"
    /\ calls # << >>
    /\ cpc' = "posted"
    /\ calls' = << >>
    /\ IF mode = "cooperative"
       THEN /\ running # 0
            /\ WithSession(running)
            /\ flight' = [requests |-> [k \in 1..Len(calls) |-> calls[k].request],
                          futures |-> [k \in 1..Len(calls) |-> calls[k].future],
                          continue_on_error |-> continuing,
                          exiting |-> exiting,
                          session |-> loops'[running].session]
       ELSE /\ UNCHANGED << loops, sessions >>
            /\ flight' = [requests |-> [k \in 1..Len(calls) |-> calls[k].request],
                          futures |-> << >>,
                          continue_on_error |-> continuing,
                          exiting |-> exiting,
                          session |-> 0]
    /\ flushed' = NoFlush
    /\ trace' = << >>
    /\ UNCHANGED << context_vars, futures, handles, json_out, last_flush, client_warnings,
                    running >>

\* __exit__ or __aexit__ with nothing queued
ExitScope ==
    /\ cpc = "open"
    /\ calls = << >>
    /\ cpc' = "closed"
    /\ UNCHANGED << context_vars, queue_vars, flush_vars, loop_vars >>

\* Ends as it would be if the queue were emptied when the flush ends
Ends_clears_queue(e) ==
    /\ cpc = "posted"
    /\ cpc' = IF flight.exiting THEN "closed" ELSE "open"
    /\ flight' = NoFlight
    /\ last_flush' = Flushed(flight, e.read)
    /\ flushed' = e.flushed
    /\ futures' = e.futures
    /\ json_out' = e.json_out
    /\ trace' = e.events
    /\ client_warnings' = client_warnings \o Messages(e.events, 1)
    /\ calls' = << >>
    /\ UNCHANGED << context_vars, handles, loop_vars >>

\* the __call__ that is inside the POST ends as e says
Ends(e) ==
    /\ cpc = "posted"
    /\ cpc' = IF flight.exiting THEN "closed" ELSE "open"
    /\ flight' = NoFlight
    /\ last_flush' = Flushed(flight, e.read)
    /\ flushed' = e.flushed
    /\ futures' = e.futures
    /\ json_out' = e.json_out
    /\ trace' = e.events
    /\ client_warnings' = client_warnings \o Messages(e.events, 1)
    /\ UNCHANGED << context_vars, calls, handles, loop_vars >>

\* __call__ from the end of the POST to its return or raise
ReadResponse(resp) == Ends(Received(mode, resp, flight, futures, json_out))

\* the task of a cooperative __call__ is cancelled while it is suspended in the POST:
\* CancelledError is raised at the await and leaves __call__
CancelPosted ==
    /\ mode = "cooperative"
    /\ Ends(Ending(Raised(Exc("CancelledError", "")), futures, << >>, json_out, "cancelled"))

\* the task of a cooperative __call__ is cancelled before its first step: no
\* statement of __call__ runs
CancelUnstarted ==
    /\ mode = "cooperative"
    /\ cpc = "open"
    /\ calls # << >>
    /\ flushed' = Raised(Exc("CancelledError", ""))
    /\ last_flush' = [requests |-> [k \in 1..Len(calls) |-> calls[k].request],
                      futures |-> [k \in 1..Len(calls) |-> calls[k].future],
                      continue_on_error |-> FALSE, exiting |-> FALSE, read |-> "unstarted"]
    /\ trace' = << >>
    /\ UNCHANGED << cpc, context_vars, queue_vars, flight, json_out, client_warnings,
                    loop_vars >>

\* loop.run_until_complete(...) returns: no loop runs
LoopReturns ==
    /\ running # 0
    /\ cpc # "posted"
    /\ running' = 0
    /\ UNCHANGED << cpc, context_vars, queue_vars, flush_vars, loops, sessions >>

\* loop.run_until_complete(...) on a loop that is not closed
LoopRuns(l) ==
    /\ running = 0
    /\ ~loops[l].closed
    /\ running' = l
    /\ UNCHANGED << cpc, context_vars, queue_vars, flush_vars, loops, sessions >>

\* the steps of the close that __call__ patched in: if hasattr(self, "_tuber_session"):
\* the session is closed unless the loop is closed, the attribute is deleted; then
\* loop_close()
PatchedClose(loop) ==
    (IF loop.session = 0 THEN << >>
     ELSE (IF loop.closed THEN << >> ELSE << "session.close" >>) \o << "del _tuber_session" >>)
    \o << "loop_close" >>

\* loop.close() on a loop that does not run: the patched close, or the loop's own
\* when no __call__ has patched it
LoopCloses(l) ==
    /\ running # l
    /\ Len(loops[l].teardown) < MaxTeardown
    /\ loops' = [loops EXCEPT ![l].closed = TRUE,
                              ![l].session = 0,
                              ![l].teardown =
                                   @ \o (IF loops[l].patched THEN PatchedClose(loops[l])
                                         ELSE << "loop_close" >>)]
    /\ sessions' = [s \in 1..Len(sessions) |->
                       IF loops[l].patched /\ s = loops[l].session /\ ~loops[l].closed
                       THEN [sessions[s] EXCEPT !.state = "closed"]
                       ELSE sessions[s]]
    /\ UNCHANGED << cpc, context_vars, queue_vars, flush_vars, running >>

(***************************************************************************)
(* The requests the model sends: the requests of tests/test.py and the     *)
(* malformed ones the dispatcher must answer.                              *)
(***************************************************************************)
CallMethod(object, method) == Req2("object", PyStr(object), "method", PyStr(method))
CallArgs(object, method, args) ==
    Req3("object", PyStr(object), "method", PyStr(method), "args", args)
CallKwargs(object, method, kwargs) ==
    Req3("object", PyStr(object), "method", PyStr(method), "kwargs", kwargs)

TheWarning == PyStr("This is a warning")

\* a call that returns
CallOk == CallMethod("Types", "integer_function")
\* a call whose method raises
CallRaises == CallArgs("Wrapper", "increment", PyList(<< PyInt(4) >>))
\* a call that warns and returns, one that warns and raises, one that warns twice
WarnOk == CallArgs("Warnings", "single_warning", PyList(<< TheWarning >>))
WarnRaises ==
    Req4("object", PyStr("Warnings"), "method", PyStr("single_warning"),
         "args", PyList(<< TheWarning >>), "kwargs", PyDict(Attrs1("error", PyBool(TRUE))))
WarnTwice ==
    CallKwargs("Warnings", "multiple_warnings", PyDict(Attrs1("warning_count", PyInt(2))))
\* calls that fail before any method is called
NoObject == CallMethod("NothingHere", "method")
NoMethod == CallMethod("NullObject", "does_not_exist")
BadArgs == CallArgs("Types", "integer_function", PyStr("1234"))
BadKwargs == CallKwargs("Types", "integer_function", PyList(<< >>))
\* a describe
Property == Req2("object", PyStr("Types"), "property", PyStr("INTEGER"))
\* a call whose return value no codec serializes
CallUnserializable == CallMethod("Wrapper", "unserializable")

\* describes: of the registry, of an object, and requests without the key object
DescribeRegistry == PyDict(NoAttrs)
DescribeRegistryResolved == PyDict(Attrs1("resolve", PyBool(TRUE)))
ObjectOnly == PyDict(Attrs1("object", PyStr("Types")))
MethodOnly == PyDict(Attrs1("method", PyStr("integer_function")))
PropertyOnly == PyDict(Attrs1("property", PyStr("INTEGER")))
\* a request with the three keys object, method and property
MethodAndProperty ==
    Req3("object", PyStr("Types"), "method", PyStr("integer_function"),
         "property", PyStr("INTEGER"))
\* describes of an attribute: missing, a container (simple and resolved), a method
MissingProperty == Req2("object", PyStr("Types"), "property", PyStr("nothing"))
ContainerProperty ==
    Req2("object", PyStr("ObjectWithContainerProperties"),
         "property", PyStr("property_objects"))
ContainerPropertyResolved ==
    Req3("object", PyStr("ObjectWithContainerProperties"),
         "property", PyStr("property_objects"), "resolve", PyBool(TRUE))
MethodProperty == Req2("object", PyStr("Warnings"), "property", PyStr("single_warning"))
\* the object with names that begin with an underscore: its descriptors, a call of
\* its method and a describe of it
DescribeProtected == PyDict(Attrs1("object", PyStr("Protected")))
DescribeProtectedResolved == Req2("object", PyStr("Protected"), "resolve", PyBool(TRUE))
CallReserved == CallMethod("Protected", "_tuber_reset")
PropertyReserved == Req2("object", PyStr("Protected"), "property", PyStr("_tuber_reset"))
\* object paths in the list form: ["Types"], ["ObjectWithContainerProperties",
\* ("property_objects", 0)], [("ObjectList", 1), ("method_objects", "a")], and a path
\* that does not resolve, a path with an index out of range and one with a key that
\* is not there
ListPaths ==
    { << PyStr("Types") >>,
      << PyStr("ObjectWithContainerProperties"),
         PyList(<< PyStr("property_objects"), PyInt(0) >>) >>,
      << PyList(<< PyStr("ObjectList"), PyInt(1) >>),
         PyList(<< PyStr("method_objects"), PyStr("a") >>) >>,
      << PyStr("Types"), PyList(<< PyStr("INTEGER"), PyInt(0) >>) >>,
      << PyList(<< PyStr("ObjectList"), PyInt(5) >>) >>,
      << PyList(<< PyStr("ObjectList"), PyInt(1) >>),
         PyList(<< PyStr("method_objects"), PyStr("zz") >>) >> }

\* the items of the batches
Items ==
    { CallOk, CallRaises, WarnOk, WarnRaises, WarnTwice, NoObject, BadArgs, Property,
      CallUnserializable }

\* a describe of the object at a path
DescribePath(o) == PyDict(Attrs1("object", o))

\* the describes by path, in the list form and in the string form of the client
PathRequests ==
    { DescribePath(PyList(P)) : P \in ListPaths }
        \cup { DescribePath(PyStr(StringForm(P))) : P \in ListPaths }

\* calls of method() on the objects at these paths
PathCalls == { Req2("object", r.d.object, "method", PyStr("method")) : r \in PathRequests }

\* the describes sent alone
Describes ==
    { DescribeRegistry, DescribeRegistryResolved, ObjectOnly, MethodOnly, PropertyOnly,
      MethodAndProperty, MissingProperty, ContainerProperty, ContainerPropertyResolved,
      MethodProperty, DescribeProtected, DescribeProtectedResolved, CallReserved,
      PropertyReserved }

\* the requests sent alone
Singles ==
    Items \cup { NoMethod, BadKwargs } \cup Describes \cup PathRequests \cup PathCalls

SeqsUpTo(S, n) == UNION { [1..k -> S] : k \in 0..n }

Batches == { PyList(xs) : xs \in SeqsUpTo(Items, MaxBatch) }

\* the headers of the requests that reach the loop
BatchHeaders ==
    { NoHeaders,
      Hdr2("Content-Type", CBOR, "Accept", "text/html, application/cbor"),
      Hdr1("X-Tuber-Options", "continue-on-error"),
      Hdr2("Accept", JSON, "X-Tuber-Options", " continue-on-error , other"),
      Hdr2("Accept", "*/*", "X-Tuber-Options", "other,continue-on-errors") }

\* headers that handle refuses
BadHeaders ==
    { Hdr1("Content-Type", "text/plain"), Hdr1("Accept", "text/html") }

\* headers that make the request codec and the response codec differ, or name
\* several media types
NegotiationHeaders ==
    { Hdr1("Content-Type", CBOR),
      Hdr2("Content-Type", CBOR, "Accept", JSON),
      Hdr2("Content-Type", CBOR, "Accept", "text/html, */*"),
      Hdr2("Content-Type", CBOR, "Accept", "application/*"),
      Hdr2("Content-Type", CBOR, "Accept", "text/html"),
      Hdr1("Accept", "application/cbor, */*"),
      Hdr1("Accept", " application/cbor , application/json"),
      Hdr1("Accept", "application/json, application/cbor"),
      Hdr2("Content-Type", "text/plain", "Accept", CBOR) }

\* the bodies sent with them: the single requests, a batch of none and of one, a body
\* that is neither a mapping nor a list
NegotiatedBodies == Singles \cup { PyList(<< >>), PyList(<< CallOk >>), PyInt(7) }

\* the body a client sends with these headers
BodyFor(hdrs, data) ==
    Encoded(IF HeaderOr(hdrs, "Content-Type", JSON) = CBOR THEN CBOR ELSE JSON, data)

\* the calls the client queues: (object, method, args, kwargs)
ClientCalls ==
    { [object |-> "Wrapper", method |-> "increment",
       args |-> << PyList(<< PyInt(1), PyInt(2), PyInt(3) >>) >>, kwargs |-> NoAttrs],
      [object |-> "Wrapper", method |-> "increment", args |-> << PyInt(4) >>,
       kwargs |-> NoAttrs],
      [object |-> "Wrapper", method |-> "unserializable", args |-> << >>, kwargs |-> NoAttrs],
      [object |-> "Warnings", method |-> "single_warning", args |-> << TheWarning >>,
       kwargs |-> NoAttrs],
      [object |-> "Warnings", method |-> "single_warning", args |-> << TheWarning >>,
       kwargs |-> Attrs1("error", PyBool(TRUE))],
      [object |-> "Protected", method |-> "_tuber_reset", args |-> << >>,
       kwargs |-> NoAttrs],
      [object |-> "_tuber_objname", method |-> "increment", args |-> << >>,
       kwargs |-> NoAttrs] }

\* ctx.ObjectList[1].method_objects["a"].method(), as test_tuberpy_container_context
\* queues it
ContainerCalls ==
    { [ops |-> << Attr("ObjectList"), Item(PyInt(1)), Attr("method_objects"),
                  Item(PyStr("a")), Attr("method") >>,
       args |-> << >>, kwargs |-> NoAttrs] }

\* the contexts the model opens: cooperative ones of the registry and of Wrapper,
\* serial ones of Wrapper and of Warnings, the last with ctx_kwargs error=True
RegistryContext == [mode |-> "cooperative", obj |-> "", kwargs |-> NoAttrs]

ContextKinds ==
    { RegistryContext,
      [mode |-> "cooperative", obj |-> "Wrapper", kwargs |-> NoAttrs],
      [mode |-> "serial", obj |-> "Wrapper", kwargs |-> NoAttrs],
      [mode |-> "serial", obj |-> "Warnings", kwargs |-> Attrs1("error", PyBool(TRUE))] }

(***************************************************************************)
(* The proxy objects of the client (SimpleTuberObject, TuberObject).  A    *)
(* proxy stands for one object of the registry; tuber_resolve() asks the   *)
(* server for the descriptor of the object and installs its attributes.    *)
(***************************************************************************)
VARIABLES
    proxies,        \* objname -> the proxy: _tuber_meta, the attributes installed on it
    proxy_sent,     \* the requests the proxies have posted, in order
    proxy_out       \* the last operation on a proxy and how it ended

proxy_vars == << proxies, proxy_sent, proxy_out >>

\* no operation has been made yet
NoOperation == [op |-> "none"]

(***************************************************************************)
(* The CBOR codec of arrays (cbor_encode_ndarray, cbor_tag_decode) runs on *)
(* a host: sys.byteorder, and whether its numpy has a float of 16 bytes.   *)
(***************************************************************************)
VARIABLES
    codec_host,     \* the host of the codec
    codec_op        \* the last call of the codec: its input and how it ended

codec_vars == << codec_host, codec_op >>

(***************************************************************************)
(* The worker threads of the server process.  The transport hands the      *)
(* requests of different connections to different threads, which run       *)
(* invoke at the same time.  The warnings module is the one of the         *)
(* process; a recording list is an object of its own, named here by its    *)
(* position in wlists (0 is the hook the interpreter starts with).         *)
(***************************************************************************)
VARIABLES
    workers,        \* thread -> where it is in invoke, and what it holds
    wmodule,        \* warnings.filters and the hook that is installed
    wlists          \* the recording lists made so far

thread_vars == << workers, wmodule, wlists >>

Workers == {1, 2}

IdleWorker == [at |-> "idle"]

ThreadInit ==
    /\ workers = [t \in Workers |-> IdleWorker]
    /\ wmodule = [filters |-> DefaultFilters, hook |-> 0]
    /\ wlists = << >>

(***************************************************************************)
(* The flushes of several cooperative contexts as tasks of the event       *)
(* loops: a task is scheduled on the running loop, runs __call__ up to the *)
(* POST, is suspended there, and ends.                                     *)
(***************************************************************************)
VARIABLES
    tasks           \* the tasks made so far, in order

task_vars == << tasks >>

TaskInit == tasks = << >>

other_vars == << proxy_vars, codec_vars, thread_vars, task_vars >>

Host(little, f16) == [little |-> little, f16 |-> f16]

Hosts == { Host(little, f16) : little \in BOOLEAN, f16 \in BOOLEAN }

CodecStarts(hosts) ==
    /\ codec_host \in hosts
    /\ codec_op = NoOperation

\* the objects the proxies stand for: the registry (objname None), two objects of
\* it, and a name the registry does not have
ProxyNames == {"", "Wrapper", "Types", "Nope"}

\* hasattr(self, "_tuber_meta") is false
NoMeta == [t |-> "unset"]

\* __init__: self._tuber_objname = objname, nothing resolved
NewProxy == [meta |-> NoMeta, attrs |-> [n \in {} |-> NoMeta], made |-> 0]

ProxyInit ==
    /\ proxies = [p \in ProxyNames |-> NewProxy]
    /\ proxy_sent = << >>
    /\ proxy_out = NoOperation

(***************************************************************************)
(* The server under any request: a request arrives from the transport, the *)
(* handler runs, the response leaves.                                      *)
(***************************************************************************)
vars == << server_vars, client_vars, other_vars >>

Init ==
    /\ ServerInit
    /\ ClientInit
    /\ ProxyInit
    /\ CodecStarts({ Host(TRUE, TRUE) })
    /\ ThreadInit
    /\ TaskInit

\* a request arrives: a batch, a single request, a body of another shape or bytes that
\* do not decode
Arrives(hdrs, data) ==
    \/ Handle(BodyFor(hdrs, data), hdrs)
    \/ data = PyInt(7) /\ Handle(Garbage, hdrs)

Receive ==
    /\ pc = "idle"
    /\ \/ \E hdrs \in BatchHeaders \cup BadHeaders :
             \E data \in Batches \cup Singles \cup { PyInt(7) } : Arrives(hdrs, data)
       \/ \E hdrs \in NegotiationHeaders :
             \E data \in NegotiatedBodies : Arrives(hdrs, data)
    /\ UNCHANGED << client_vars, other_vars >>

Loop == LoopStep /\ UNCHANGED << client_vars, other_vars >>

Encode == Finish /\ UNCHANGED << client_vars, other_vars >>

Send == Respond /\ UNCHANGED << client_vars, other_vars >>

Next == Receive \/ Loop \/ Encode \/ Send

Spec == Init /\ [][Next]_vars

(***************************************************************************)
(* The client and the server together: the batches are the ones a Context  *)
(* flushes, and the response goes back to the suspended __call__.          *)
(***************************************************************************)
Open == (\E kind \in ContextKinds : OpenContext(kind)) /\ UNCHANGED << server_vars, other_vars >>

\* ctx.<method>(...) on the context of an object, ctx.<object>.<method>(...) on the
\* context of the registry
OpsOf(c) ==
    IF ctx_obj = "" THEN << Attr(c.object), Attr(c.method) >> ELSE << Attr(c.method) >>

Queue ==
    /\ \/ \E c \in ClientCalls :
             /\ ctx_obj \in {"", c.object}
             /\ AddCall(Navigate(ContextStep(ctx_obj, OpsOf(c)[1]), OpsOf(c), 2),
                        c.args, c.kwargs)
       \/ \E c \in ContainerCalls :
             /\ ctx_obj = ""
             /\ AddCall(Navigate(ContextStep(ctx_obj, c.ops[1]), c.ops, 2), c.args, c.kwargs)
    /\ UNCHANGED << server_vars, other_vars >>

FlushEmpty == FlushNothing /\ UNCHANGED << server_vars, other_vars >>

\* ctx(continue_on_error=...) inside the scope
Flush ==
    /\ pc = "idle"
    /\ \E continuing \in BOOLEAN :
          /\ Post(continuing, FALSE)
          /\ Handle(Encoded(JSON, PyList(flight'.requests)), PostHeaders(continuing))
    /\ UNCHANGED other_vars

\* __exit__ and __aexit__: if self.calls: self()
Exit ==
    \/ /\ pc = "idle"
       /\ Post(FALSE, TRUE)
       /\ Handle(Encoded(JSON, PyList(flight'.requests)), PostHeaders(FALSE))
       /\ UNCHANGED other_vars
    \/ ExitScope /\ UNCHANGED << server_vars, other_vars >>

\* the response reaches the client: the handler's, or one that is not the handler's
Reply ==
    /\ pc = "done"
    /\ \/ ReadResponse(Delivered(response))
       \/ \E resp \in TransportFailures : ReadResponse(resp)
    /\ Respond
    /\ UNCHANGED other_vars

\* the task of a flush is cancelled; the server goes on with a request it has
Cancel == (CancelPosted \/ CancelUnstarted) /\ UNCHANGED << server_vars, other_vars >>

\* the response to a request whose __call__ has been cancelled goes nowhere
Abandon == cpc # "posted" /\ Respond /\ UNCHANGED << client_vars, other_vars >>

ClientNext ==
    Open \/ Queue \/ FlushEmpty \/ Flush \/ Exit \/ Loop \/ Encode \/ Reply \/ Cancel
        \/ Abandon

ClientSpec == Init /\ [][ClientNext]_vars

(***************************************************************************)
(* The event loops and their sessions: a cooperative context of the        *)
(* registry is used from loops that run, return and are closed.            *)
(***************************************************************************)
SessionOpen == OpenContext(RegistryContext) /\ UNCHANGED << server_vars, other_vars >>

SessionQueue ==
    /\ AddCall(Navigate(ContextStep(ctx_obj, Attr("Types")), << Attr("Types"),
                                                               Attr("integer_function") >>, 2),
               << >>, NoAttrs)
    /\ UNCHANGED << server_vars, other_vars >>

SessionFlush ==
    /\ pc = "idle"
    /\ Post(FALSE, FALSE)
    /\ Handle(Encoded(JSON, PyList(flight'.requests)), PostHeaders(FALSE))
    /\ UNCHANGED other_vars

SessionReply ==
    pc = "done" /\ ReadResponse(Delivered(response)) /\ Respond /\ UNCHANGED other_vars

Stops == LoopReturns /\ UNCHANGED << server_vars, other_vars >>

Runs == (\E l \in LoopIds : LoopRuns(l)) /\ UNCHANGED << server_vars, other_vars >>

Closes == (\E l \in LoopIds : LoopCloses(l)) /\ UNCHANGED << server_vars, other_vars >>

SessionNext ==
    SessionOpen \/ SessionQueue \/ FlushEmpty \/ SessionFlush \/ Loop \/ Encode
        \/ SessionReply \/ Stops \/ Runs \/ Closes

SessionSpec == Init /\ [][SessionNext]_vars

(***************************************************************************)
(* Properties of batches.  The predicates below read only the state: the   *)
(* headers as they arrived, the results, the response and the record of    *)
(* what was dispatched.                                                    *)
(***************************************************************************)
\* the handler is in or past the loop over a batch
InBatch == pc \in {"loop", "done"} /\ IsList(request_obj)

\* the batch has been answered
BatchDone == pc = "done" /\ IsList(request_obj)

\* the X-Tuber-Options values of the model that hold the token continue-on-error
OptionsWithToken == {"continue-on-error", " continue-on-error , other"}

OptionGiven ==
    "X-Tuber-Options" \in DOMAIN headers /\ headers["X-Tuber-Options"] \in OptionsWithToken

IsError(env) == "error" \in DOMAIN env
IsResult(env) == "result" \in DOMAIN env

Synthetic == [k \in {"error"} |-> [message |-> "Something went wrong in a preceding call"]]

\* the envelopes of the response, when the response is a sequence
ResponseEnvelopes == response.body.data.envs

\* C1: a request body that decodes to a sequence of N requests is answered with a
\* sequence of exactly N envelopes, whatever the items produce.
C1_BatchOfNGetsNEnvelopes ==
    BatchDone =>
        /\ response.body.data.islist
        /\ Len(ResponseEnvelopes) = Len(request_obj.xs)

\* a batch whose second item returned a value no codec serializes has been answered
C1_UnserializableItemAnswered ==
    /\ BatchDone
    /\ Len(request_obj.xs) = 2
    /\ request_obj.xs[2] = CallUnserializable
    /\ IsResult(results[1])
    /\ IsResult(results[2])

\* C2: in a batch handled without continue-on-error, once envelope a is an error
\* every later envelope b is the synthetic error "Something went wrong in a
\* preceding call", in the results of the loop and in the response sequence.
C2_FailFastFillsSynthetic ==
    (InBatch /\ ~OptionGiven) =>
        /\ \A a \in 1..i : \A b \in 1..i :
              (a < b /\ IsError(results[a])) => results[b] = Synthetic
        /\ (pc = "done" /\ response.body.data.islist) =>
              \A a \in 1..Len(ResponseEnvelopes) : \A b \in 1..Len(ResponseEnvelopes) :
                 (a < b /\ IsError(ResponseEnvelopes[a])) => ResponseEnvelopes[b] = Synthetic

\* three items, fail-fast: a result, then the item's own error, then the synthetic one
C2_ErrorThenSynthetic ==
    /\ BatchDone
    /\ ~OptionGiven
    /\ response.body.data.islist
    /\ Len(ResponseEnvelopes) = 3
    /\ IsResult(ResponseEnvelopes[1])
    /\ IsError(ResponseEnvelopes[2])
    /\ ResponseEnvelopes[2] # Synthetic
    /\ ResponseEnvelopes[3] = Synthetic

\* C3: in a batch handled without continue-on-error, no item after the first one
\* whose dispatch gave an error envelope is dispatched: nothing is logged as
\* dispatched (and so no method is called) for an index after an error.
C3_NothingDispatchedAfterError ==
    (InBatch /\ ~OptionGiven) =>
        /\ \A a \in 1..Len(dispatch_log) : \A b \in 1..Len(dispatch_log) :
              a < b => ~IsError(dispatch_log[a].response)
        /\ \A k \in 1..i :
              (\E a \in 1..(k - 1) : IsError(results[a])) =>
                  \A e \in 1..Len(dispatch_log) : dispatch_log[e].index # k

\* the third item names a method that warns, the second failed: two dispatches only
C3_ThirdItemNotDispatched ==
    /\ BatchDone
    /\ ~OptionGiven
    /\ Len(request_obj.xs) = 3
    /\ request_obj.xs[3] = WarnOk
    /\ IsResult(results[1])
    /\ IsError(results[2])
    /\ Len(dispatch_log) = 2

\* C4: when X-Tuber-Options holds the token continue-on-error (comma-separated,
\* surrounding whitespace ignored), every item is dispatched whatever the earlier
\* items gave, each envelope is what the dispatch of its own item gave, and no
\* envelope is the synthetic one.
C4_ContinueDispatchesEveryItem ==
    (InBatch /\ OptionGiven) =>
        /\ Len(dispatch_log) = i
        /\ \A k \in 1..i :
              /\ dispatch_log[k].index = k
              /\ results[k] = dispatch_log[k].response
              /\ results[k] # Synthetic
              /\ dispatch_log[k].called # NoCall =>
                    dispatch_log[k].called.name = request_obj.xs[k].d.method.s
        /\ pc = "done" => i = Len(request_obj.xs)

\* the token sits between blanks and beside another token; the first item fails and
\* the third is still dispatched and returns
C4_DispatchedAfterError ==
    /\ BatchDone
    /\ "X-Tuber-Options" \in DOMAIN headers
    /\ headers["X-Tuber-Options"] = " continue-on-error , other"
    /\ Len(request_obj.xs) = 3
    /\ IsError(results[1])
    /\ IsResult(results[3])
    /\ dispatch_log[3].called # NoCall

\* C5: the items of a batch are dispatched one at a time in the order of their
\* indices; envelope k of the results and of the response is what the dispatch of
\* request k gave (the method called is the one request k names, on the object it
\* names), or the synthetic error where nothing was dispatched; and on the client
\* the k-th future of the flushed batch is set from envelope k.
C5_EnvelopeOfRequest ==
    InBatch =>
        /\ Len(dispatch_log) <= i
        /\ \A k \in 1..Len(dispatch_log) :
              /\ dispatch_log[k].index = k
              /\ results[k] = dispatch_log[k].response
              /\ dispatch_log[k].called # NoCall =>
                    /\ dispatch_log[k].called.name = request_obj.xs[k].d.method.s
                    /\ dispatch_log[k].called.id = registry[request_obj.xs[k].d.object.s].id
        /\ \A k \in (Len(dispatch_log) + 1)..i : results[k] = Synthetic
        /\ (pc = "done" /\ response.body.data.islist) => ResponseEnvelopes = results

C5_FutureOfEnvelope ==
    (/\ cpc = "posted"
     /\ cpc' # "posted"
     /\ last_flush'.read = "decoded"
     /\ response.body.data.islist) =>
        \A k \in 1..Len(flight.futures) :
            k <= Len(ResponseEnvelopes) =>
                futures'[flight.futures[k]] =
                    IF IsError(ResponseEnvelopes[k])
                    THEN [state |-> "exception",
                          exc |-> [cls |-> "TuberRemoteError",
                                   text |-> ResponseEnvelopes[k].error.message]]
                    ELSE [state |-> "result", value |-> ResponseEnvelopes[k].result]

C5_InOrderAndPositional == []C5_EnvelopeOfRequest /\ [][C5_FutureOfEnvelope]_vars

\* a flush of three calls has ended: the first future holds the incremented list,
\* the second the error of its own call, the third the synthetic error
C5_ThreeFuturesSet ==
    /\ cpc \in {"open", "closed"}
    /\ Len(futures) = 3
    /\ futures[1] = [state |-> "result",
                     value |-> PyList(<< PyInt(2), PyInt(3), PyInt(4) >>)]
    /\ futures[2].state = "exception"
    /\ futures[2].exc.text = "TypeError: increment(): incompatible function arguments."
    /\ futures[3].state = "exception"
    /\ futures[3].exc.text = "Something went wrong in a preceding call"

\* the batch [valid call, call whose return value is not serializable, valid call]
UnserializableBatch ==
    << ClientRequest("Wrapper", "increment",
                     << PyList(<< PyInt(1), PyInt(2), PyInt(3) >>) >>, NoAttrs),
       ClientRequest("Wrapper", "unserializable", << >>, NoAttrs),
       ClientRequest("Wrapper", "increment",
                     << PyList(<< PyInt(1), PyInt(2), PyInt(3) >>) >>, NoAttrs) >>

\* C8: when a context flushes the batch [valid call, call whose return value the
\* response codec cannot serialize, valid call], the flush ends without raising,
\* the first future holds its result, and the second and the third each hold a
\* remote error.
C8_FailingCallDoesNotCorruptBatch ==
    [][(/\ cpc = "posted"
        /\ mode = "cooperative"
        /\ flight.requests = UnserializableBatch
        /\ cpc' # "posted"
        /\ last_flush'.read = "decoded") =>
          /\ flushed'.kind = "returned"
          /\ futures'[flight.futures[1]].state = "result"
          /\ futures'[flight.futures[2]].state = "exception"
          /\ futures'[flight.futures[2]].exc.cls = "TuberRemoteError"
          /\ futures'[flight.futures[3]].state = "exception"
          /\ futures'[flight.futures[3]].exc.cls = "TuberRemoteError"]_vars

\* the flush of that batch has ended with the three futures still pending
C8_FuturesLeftPending ==
    /\ cpc \in {"open", "closed"}
    /\ flushed.kind = "raised"
    /\ flushed.exc.cls = "TuberRemoteError"
    /\ Len(futures) = 3
    /\ \A k \in 1..3 : futures[k].state = "pending"

\* C6: every envelope the dispatcher produces holds exactly one of the keys result
\* and error, and warnings is its only other possible key: the envelopes of invoke
\* and describe, the synthetic ones, and those of the response.
WellFormed(env) ==
    /\ DOMAIN env \subseteq {"result", "error", "warnings"}
    /\ IsResult(env) # IsError(env)

C6_ExactlyOneOfResultAndError ==
    /\ \A k \in 1..Len(dispatch_log) : WellFormed(dispatch_log[k].response)
    /\ InBatch => \A k \in 1..i : WellFormed(results[k])
    /\ pc = "done" =>
          IF response.body.data.islist
          THEN \A k \in 1..Len(ResponseEnvelopes) : WellFormed(ResponseEnvelopes[k])
          ELSE WellFormed(response.body.data.env)

\* a result with warnings, an error with warnings and a synthetic error in one batch
C6_AllShapesOfEnvelope ==
    /\ BatchDone
    /\ Len(request_obj.xs) = 3
    /\ DOMAIN results[1] = {"result", "warnings"}
    /\ DOMAIN results[2] = {"error", "warnings"}
    /\ results[3] = Synthetic

\* C7: no failure raised while a request is dispatched leaves handle: the failure
\* is shaped into an envelope with the only key error (and warnings, if any) whose
\* message is "<class name>: <text>", the loop can always go on to its end, and what
\* handle returns is a pair of a media type of the handler and a body in it.
C7_FailuresBecomeErrorEnvelopes ==
    /\ \A k \in 1..Len(dispatch_log) :
          dispatch_log[k].failure # << >> =>
              /\ IsError(dispatch_log[k].response)
              /\ ~IsResult(dispatch_log[k].response)
              /\ dispatch_log[k].response.error.message =
                    dispatch_log[k].failure[1].cls \o ": " \o dispatch_log[k].failure[1].text
    /\ pc = "loop" => /\ i <= Len(request_obj.xs)
                      /\ Len(results) = Len(request_obj.xs)
    /\ pc = "done" => /\ response.fmt \in HandlerCodecs
                      /\ response.body.fmt = response.fmt
    /\ (pc = "done" /\ IsDict(request_obj) /\ dispatch_log[1].failure # << >>) =>
          response.body.data = Single(dispatch_log[1].response)

\* an unknown object, a failed argument check and a raising method have each been
\* answered
C7_UnknownObjectAnswered ==
    /\ pc = "done"
    /\ request_obj = NoObject
    /\ dispatch_log[1].failure # << >>
    /\ dispatch_log[1].failure[1].cls = "AttributeError"
    /\ IsError(response.body.data.env)

\* C9: the warnings a call of a batch emits are on the envelope of that call only:
\* the warnings of every envelope are the ones its own call emitted, a call that
\* emitted none has no warnings key, and neither has an item that was not dispatched.
C9_WarningsStayWithTheirCall ==
    InBatch =>
        /\ \A e \in 1..Len(dispatch_log) :
              IF dispatch_log[e].emitted = << >>
              THEN "warnings" \notin DOMAIN results[dispatch_log[e].index]
              ELSE "warnings" \in DOMAIN results[dispatch_log[e].index] =>
                      results[dispatch_log[e].index].warnings = dispatch_log[e].emitted
        /\ \A k \in 1..i :
              (\A e \in 1..Len(dispatch_log) : dispatch_log[e].index # k) =>
                  "warnings" \notin DOMAIN results[k]

\* a call that warns twice, then a call that does not warn, then one that warns once
C9_WarningBetweenQuietCalls ==
    /\ BatchDone
    /\ Len(request_obj.xs) = 3
    /\ request_obj.xs[1] = WarnTwice
    /\ request_obj.xs[2] = CallOk
    /\ request_obj.xs[3] = WarnOk
    /\ Len(results[1].warnings) = 2
    /\ "warnings" \notin DOMAIN results[2]
    /\ results[3].warnings = << "This is a warning" >>

\* C10: when the method emits a warning, the envelope holds warnings, the list of
\* the messages in the order of emission, beside result when the method returned
\* and beside error when it raised, and that key is what it is without warnings.
C10_WarningsBesideResultOrError ==
    \A k \in 1..Len(dispatch_log) :
        dispatch_log[k].emitted # << >> =>
            /\ "warnings" \in DOMAIN dispatch_log[k].response
            /\ dispatch_log[k].response.warnings = dispatch_log[k].emitted
            /\ IF dispatch_log[k].failure = << >>
               THEN dispatch_log[k].response =
                       [n \in {"result", "warnings"} |->
                           IF n = "result" THEN PyBool(TRUE) ELSE dispatch_log[k].emitted]
               ELSE dispatch_log[k].response =
                       [n \in {"error", "warnings"} |->
                           IF n = "error" THEN [message |-> "RuntimeError: Oops!"]
                           ELSE dispatch_log[k].emitted]

\* one call warned twice and returned, the next warned and raised
C10_WarnedAndRaised ==
    /\ InBatch
    /\ Len(dispatch_log) = 2
    /\ DOMAIN dispatch_log[1].response = {"result", "warnings"}
    /\ dispatch_log[1].response.warnings = << "Warning 1", "Warning 2" >>
    /\ DOMAIN dispatch_log[2].response = {"error", "warnings"}
    /\ dispatch_log[2].response.warnings = << "This is a warning" >>
    /\ dispatch_log[2].response.error.message = "RuntimeError: Oops!"

(***************************************************************************)
(* Properties of the dispatcher.  RequestOf gives the request a logged     *)
(* dispatch was made for: the single request, or the item of the batch.    *)
(***************************************************************************)
RequestOf(e) == IF IsDict(request_obj) THEN request_obj ELSE request_obj.xs[e.index]

Keys(r) == DOMAIN r.d

\* what C11 says of one logged dispatch e of the request r
InvokeIffBothKeys(e, r) ==
    /\ (e.path = "invoke") <=> ({"object", "method"} \subseteq Keys(r))
    /\ ~({"object", "method"} \subseteq Keys(r)) =>
          /\ e.path = "describe"
          /\ e.called = NoCall
          /\ ~e.scoped
          /\ e.emitted = << >>

\* C11: a request is dispatched as an invoke exactly when it holds both the keys
\* object and method; with any other keys it is dispatched as a describe, which
\* calls no method of the registry.
C11_InvokeIffObjectAndMethod ==
    \A k \in 1..Len(dispatch_log) :
        IsDict(RequestOf(dispatch_log[k])) =>
            InvokeIffBothKeys(dispatch_log[k], RequestOf(dispatch_log[k]))

\* a request with the key method alone has been answered by the describe path
C11_MethodAloneDescribed ==
    /\ pc = "done"
    /\ request_obj = MethodOnly
    /\ Len(dispatch_log) = 1
    /\ dispatch_log[1].path = "describe"
    /\ dispatch_log[1].called = NoCall
    /\ IsError(response.body.data.env)

\* the describes of an attribute: the keys object and property, no key method, a
\* property name that is a non-empty string
AttributeDescribe(r) ==
    /\ IsDict(r)
    /\ {"object", "property"} \subseteq Keys(r)
    /\ "method" \notin Keys(r)
    /\ IsStr(r.d.property)
    /\ r.d.property.s # ""

ResolveAsked(r) == "resolve" \in Keys(r) /\ r.d.resolve = PyBool(TRUE)

\* what C12 says of the logged describe e of r, the object obj having been resolved
\* and attr being what getattr(obj, property) gives
AttributeDescribed(e, r, attr) ==
    /\ e.called = NoCall
    /\ e.emitted = << >>
    /\ IF ~attr.ok
       THEN /\ IsError(e.response)
            /\ StartsWith(e.response.error.message, "AttributeError: ")
       ELSE /\ DOMAIN e.response = {"result"}
            /\ IF attr.val.t = "ref" /\ heap[attr.val.id].cls = "TuberContainer"
               THEN /\ e.response.result.t = "dict"
                    /\ {"__doc__", "methods", "properties"}
                          \subseteq DOMAIN e.response.result.d
                    /\ ("objects" \in DOMAIN e.response.result.d) <=> ResolveAsked(r)
                    /\ ("values" \in DOMAIN e.response.result.d) <=> ResolveAsked(r)
                    /\ e.response.result.d.methods.t =
                          IF ResolveAsked(r) THEN "dict" ELSE "list"
               ELSE IF attr.val.t = "method"
               THEN /\ e.response.result.t = "dict"
                    /\ DOMAIN e.response.result.d = {"__doc__", "__signature__"}
               ELSE e.response.result = attr.val

FailedBeforeCall(e, cls) ==
    /\ IsError(e.response)
    /\ ~IsResult(e.response)
    /\ e.failure # << >>
    /\ cls # "" => e.failure[1].cls = cls
    /\ e.called = NoCall
    /\ ~e.scoped
    /\ e.emitted = << >>

\* what C13 says of the logged dispatch e of the call r, obj being what the
\* object path resolves to
InvokeChecked(e, r, obj) ==
    IF ~obj.ok THEN FailedBeforeCall(e, "")
    ELSE IF IsStr(r.d.method) /\ ~HasAttr(obj.val, r.d.method.s)
    THEN FailedBeforeCall(e, "AttributeError")
    ELSE IF "args" \in Keys(r) /\ ~IsList(r.d.args) THEN FailedBeforeCall(e, "TypeError")
    ELSE IF "kwargs" \in Keys(r) /\ ~IsDict(r.d.kwargs) THEN FailedBeforeCall(e, "TypeError")
    ELSE TRUE

\* C13: on the invoke path, when the object path does not resolve, the object has
\* no attribute of the method's name, args is not a list or kwargs is not a dict,
\* the envelope is an error (AttributeError for the missing method, TypeError for
\* args and kwargs), no method is called and no warning capture scope is entered.
C13_InvokeFailsBeforeCall ==
    \A k \in 1..Len(dispatch_log) :
        (/\ IsDict(RequestOf(dispatch_log[k]))
         /\ {"object", "method"} \subseteq Keys(RequestOf(dispatch_log[k]))) =>
            InvokeChecked(dispatch_log[k], RequestOf(dispatch_log[k]),
                          RegistryGetItem(RequestOf(dispatch_log[k]).d.object))

\* a call with kwargs that is a list has been answered
C13_BadKwargsRefused ==
    /\ pc = "done"
    /\ request_obj = BadKwargs
    /\ Len(dispatch_log) = 1
    /\ dispatch_log[1].path = "invoke"
    /\ dispatch_log[1].failure # << >>
    /\ dispatch_log[1].failure[1].cls = "TypeError"
    /\ dispatch_log[1].called = NoCall
    /\ ~dispatch_log[1].scoped

(***************************************************************************)
(* Properties of the handler's headers.  What an Accept value selects is   *)
(* written out for the values the model sends, as the claims read them:    *)
(* the request codec is echoed, or the first token that names a codec is   *)
(* chosen, or no token matches.                                            *)
(***************************************************************************)
Handling == pc \in {"loop", "done"}

KnownContentType ==
    "Content-Type" \notin DOMAIN headers \/ headers["Content-Type"] \in {JSON, CBOR}

\* the request codec: the Content-Type, application/json without one
RequestCodec ==
    IF "Content-Type" \in DOMAIN headers THEN headers["Content-Type"] ELSE "application/json"

\* Accept values with a token */* or application/*
Echoing == {"*/*", "text/html, */*", "application/*", "application/cbor, */*"}
\* Accept values whose first token that names a codec is application/json
FirstIsJson == {"application/json", "application/json, application/cbor"}
\* Accept values whose first token that names a codec is application/cbor
FirstIsCbor ==
    {"application/cbor", "text/html, application/cbor", " application/cbor , application/json"}

\* the response codec the Accept header selects, "" when no token matches
SelectedCodec ==
    IF "Accept" \notin DOMAIN headers THEN RequestCodec
    ELSE IF headers["Accept"] \in Echoing THEN RequestCodec
    ELSE IF headers["Accept"] \in FirstIsJson THEN "application/json"
    ELSE IF headers["Accept"] \in FirstIsCbor THEN "application/cbor"
    ELSE ""

\* handle has answered with one error envelope without decoding a request
HandlerError == pc = "done" /\ request_obj = PyNone

SingleError ==
    /\ ~response.body.data.islist
    /\ DOMAIN response.body.data.env = {"error"}

ErrorMessage == response.body.data.env.error.message

\* C14: with no Accept header the response codec is the request codec; with a token
\* */* or application/* among the comma-split, trimmed Accept tokens it is the
\* request codec; otherwise it is the first token, in header order, that names a
\* registered codec; when no token does, the response is an error and nothing of
\* the body is dispatched.
C14_ResponseCodecSelection ==
    (Handling /\ KnownContentType) =>
        IF SelectedCodec # ""
        THEN /\ response_format = SelectedCodec
             /\ pc = "done" => /\ response.fmt = SelectedCodec
                               /\ response.body.fmt = SelectedCodec
        ELSE /\ HandlerError
             /\ dispatch_log = << >>
             /\ SingleError
             /\ ErrorMessage = "ValueError: Not able to encode any media type matching "
                                  \o headers["Accept"]

\* a request in JSON whose Accept names cbor first, between blanks, and then json:
\* it has been dispatched and answered in cbor
C14_FirstTokenWins ==
    /\ pc = "done"
    /\ headers = Hdr1("Accept", " application/cbor , application/json")
    /\ request_obj = CallOk
    /\ Len(dispatch_log) = 1
    /\ response.fmt = "application/cbor"
    /\ IsResult(response.body.data.env)

\* C15: when Content-Type names a media type without a codec, handle decodes and
\* dispatches nothing and returns an encoded error whose kind is ValueError; when
\* Content-Type is absent the body is decoded with the codec of application/json
\* (a body in JSON is decoded, and a body that fails to decode fails in that codec).
C15_ContentTypeSelectsDecoder ==
    Handling =>
        /\ ~KnownContentType =>
              /\ HandlerError
              /\ dispatch_log = << >>
              /\ SingleError
              /\ ErrorMessage = "ValueError: Not able to decode media type "
                                   \o headers["Content-Type"]
              /\ response.body.fmt = response.fmt
        /\ ("Content-Type" \notin DOMAIN headers /\ SelectedCodec # "") =>
              IF HandlerError
              THEN ErrorMessage \in {"JSONDecodeError: Expecting value: line 1 column 1 (char 0)",
                                     "TypeError: Unexpected type in request"}
              ELSE request_obj # PyNone

\* a request with Content-Type text/plain has been refused
C15_UnknownContentTypeRefused ==
    /\ HandlerError
    /\ "Content-Type" \in DOMAIN headers
    /\ headers["Content-Type"] = "text/plain"
    /\ dispatch_log = << >>
    /\ StartsWith(ErrorMessage, "ValueError: ")

\* C16 as the specification states it: every handler-level error is answered with
\* one error envelope, never a sequence, encoded with the default codec of the
\* handler, application/json.
C16_HandlerErrorsInDefaultCodec ==
    HandlerError =>
        /\ SingleError
        /\ response.fmt = "application/json"

\* C16: every handler-level error (unknown Content-Type, no acceptable response
\* codec, decode failure, body that is neither a mapping nor a list) is answered
\* with one error envelope, never a sequence, encoded with the response codec as
\* it stands when the error is raised: the default of the handler for an unknown
\* Content-Type, the request codec when no Accept token matches, the codec the
\* Accept header selected for a decode failure and for a body of another shape.
C16_HandlerErrorsInCurrentCodec ==
    HandlerError =>
        /\ SingleError
        /\ response.body.fmt = response.fmt
        /\ response.fmt = IF ~KnownContentType THEN "application/json"
                          ELSE IF SelectedCodec = "" THEN RequestCodec
                          ELSE SelectedCodec

\* a body in cbor that is neither a mapping nor a list has been refused in cbor
C16_WrongShapeRefusedInCbor ==
    /\ HandlerError
    /\ headers = Hdr1("Content-Type", "application/cbor")
    /\ SingleError
    /\ ErrorMessage = "TypeError: Unexpected type in request"
    /\ response.fmt = "application/cbor"

\* C17: the shape of the response follows the shape of the decoded request: a
\* mapping is dispatched once and answered with one envelope outside any sequence,
\* a list is answered with a sequence, any other shape is answered with one
\* TypeError envelope and nothing is dispatched.
C17_ResponseShapeFollowsRequest ==
    pc = "done" =>
        /\ IsDict(request_obj) => /\ Len(dispatch_log) = 1
                                  /\ ~response.body.data.islist
        /\ IsList(request_obj) => response.body.data.islist
        /\ (HandlerError /\ ErrorMessage = "TypeError: Unexpected type in request") =>
              /\ SingleError
              /\ dispatch_log = << >>

\* a list of two requests has been answered with one envelope
C17_ListAnsweredWithOneEnvelope ==
    /\ BatchDone
    /\ Len(request_obj.xs) = 2
    /\ Len(dispatch_log) = 2
    /\ ~response.body.data.islist
    /\ IsError(response.body.data.env)

(***************************************************************************)
(* Properties of the names the server exposes and accepts.                 *)
(***************************************************************************)
\* the names of a list of strings or the keys of a dict
NamesOf(v) ==
    IF v.t = "list" THEN { v.xs[k].s : k \in { j \in DOMAIN v.xs : v.xs[j].t = "str" } }
    ELSE IF v.t = "dict" THEN DOMAIN v.d
    ELSE {}

NamesUnder(desc, key) == IF key \in DOMAIN desc THEN NamesOf(desc[key]) ELSE {}

\* the descriptors nested in a descriptor: the values of objects, the items of values
NestedDescriptors(desc) ==
    (IF "objects" \in DOMAIN desc /\ desc["objects"].t = "dict"
     THEN { desc["objects"].d[n] : n \in DOMAIN desc["objects"].d } ELSE {})
    \cup
    (IF "values" \in DOMAIN desc /\ desc["values"].t = "list"
     THEN { desc["values"].xs[k] : k \in DOMAIN desc["values"].xs } ELSE {})

\* every name a descriptor lists under methods, properties or objects, at any depth
RECURSIVE ExposedNames(_)
ExposedNames(desc) ==
    NamesUnder(desc, "methods") \cup NamesUnder(desc, "properties")
        \cup NamesUnder(desc, "objects")
        \cup UNION { ExposedNames(n.d) : n \in { x \in NestedDescriptors(desc) : x.t = "dict" } }

\* the describe of an object has been answered with its descriptor
ObjectDescribed ==
    /\ pc = "done"
    /\ IsDict(request_obj)
    /\ "object" \in Keys(request_obj)
    /\ Keys(request_obj) \subseteq {"object", "resolve"}
    /\ ~response.body.data.islist
    /\ IsResult(response.body.data.env)
    /\ response.body.data.env.result.t = "dict"

\* C18: for every object and in simple and recursive mode alike, no name that a
\* descriptor lists under methods, properties or objects starts with an underscore.
C18_NoUnderscoreNameExposed ==
    ObjectDescribed =>
        \A n \in ExposedNames(response.body.data.env.result.d) : ~StartsWith(n, "_")

\* the simple descriptor of an object with the attributes _protected and
\* _tuber_reset lists both
C18_ProtectedNamesListed ==
    /\ ObjectDescribed
    /\ request_obj = DescribeProtected
    /\ "_tuber_reset" \in NamesUnder(response.body.data.env.result.d, "methods")
    /\ "_protected" \in NamesUnder(response.body.data.env.result.d, "properties")

\* the request r names a method or a property with a reserved prefix
NamesReserved(r, key) ==
    /\ key \in Keys(r)
    /\ IsStr(r.d[key])
    /\ attribute_blacklisted(r.d[key].s)

\* no queued request of the client has a reserved method name or a reserved name in
\* its object path
NothingReservedQueued ==
    \A k \in 1..Len(calls) :
        /\ ~NamesReserved(calls[k].request, "method")
        /\ ~NamesReserved(calls[k].request, "object")

\* C19: names with the prefixes _sa, _ipython and _tuber are never requested nor
\* dispatched: the client queues no request with such a method or object name, and
\* the server, whatever the request, neither looks up nor invokes a method or a
\* property of such a name.
C19_ReservedNamesNeverDispatched ==
    /\ NothingReservedQueued
    /\ \A k \in 1..Len(dispatch_log) :
          (/\ IsDict(RequestOf(dispatch_log[k]))
           /\ \/ NamesReserved(RequestOf(dispatch_log[k]), "method")
              \/ NamesReserved(RequestOf(dispatch_log[k]), "property")) =>
                /\ dispatch_log[k].called = NoCall
                /\ IsError(dispatch_log[k].response)

\* the server has invoked the method _tuber_reset
C19_ReservedMethodInvoked ==
    /\ pc = "done"
    /\ request_obj = CallReserved
    /\ Len(dispatch_log) = 1
    /\ dispatch_log[1].called # NoCall
    /\ response.body.data.env = result_response(PyBool(TRUE), NoAttrs)

\* what C20 says of the list path P when the describe of its string form is answered
SameNode(P) ==
    (/\ RegistryGetItem(PyList(P)).ok
     /\ pc = "done"
     /\ request_obj = DescribePath(PyStr(StringForm(P)))) =>
        /\ RegistryGetItem(PyStr(StringForm(P))) = RegistryGetItem(PyList(P))
        /\ ~response.body.data.islist
        /\ response.body.data.env =
              result_response(resolve_object(RegistryGetItem(PyList(P)).val, FALSE), NoAttrs)

\* C20: the string form and the list form of a path give the same node: "Name" as
\* ["Name"], "A.B[0]" as ["A", ("B", 0)], in every registry in which the list form
\* resolves.
C20_StringFormSameAsListForm == \A P \in ListPaths : SameNode(P)

\* the describe of "ObjectWithContainerProperties.property_objects[0]" has failed
\* though the list form resolves
C20_DottedStringUnresolved ==
    /\ pc = "done"
    /\ request_obj = DescribePath(PyStr("ObjectWithContainerProperties.property_objects[0]"))
    /\ \E P \in ListPaths :
          /\ StringForm(P) = "ObjectWithContainerProperties.property_objects[0]"
          /\ RegistryGetItem(PyList(P)).ok
    /\ IsError(response.body.data.env)
    /\ StartsWith(response.body.data.env.error.message, "AttributeError: ")

(***************************************************************************)
(* Properties of the failures of object paths.                             *)
(***************************************************************************)
\* the evaluation of the path itself, before the except clause renames its failure
PathEvaluation(objname) ==
    IF objname.t = "str" THEN GetAttr(RegistryRef, objname.s)
    ELSE IF objname.t = "list"
    THEN ReducePath(Return(RegistryRef), NormalizePath(objname.xs), 1)
    ELSE Raise("TypeError", "'" \o ClassName(objname) \o "' object is not iterable")

\* the failure that C22 expects for the path objname whose evaluation failed with e
NamedFailure(e, objname) ==
    Exc(e.cls, e.text \o " (Invalid object name '" \o PyFormat(objname) \o "')")

\* what C22 says of the logged dispatch e of the request r
PathFailureReported(e, r) ==
    (/\ "object" \in Keys(r)
     /\ e.path = "invoke" \/ r.d.object # PyNone
     /\ ~PathEvaluation(r.d.object).ok) =>
        /\ e.failure = << NamedFailure(PathEvaluation(r.d.object).exc, r.d.object) >>
        /\ e.response = error_response(NamedFailure(PathEvaluation(r.d.object).exc,
                                                    r.d.object))

\* C22: a failure of the evaluation of an object path (unknown root, missing
\* attribute, bad index or key) is reported as an error of the class of the
\* original failure whose text is the original text followed by
\* " (Invalid object name '<path>')", <path> being the path as the request gives it.
C22_PathFailureNamesThePath ==
    \A k \in 1..Len(dispatch_log) :
        IsDict(RequestOf(dispatch_log[k])) =>
            PathFailureReported(dispatch_log[k], RequestOf(dispatch_log[k]))

\* the describe of ["Types", ["INTEGER", 0]] has failed and the error names the
\* path [['Types'], ['INTEGER', 0]]
C22_NormalizedPathNamed ==
    /\ pc = "done"
    /\ request_obj = DescribePath(PyList(<< PyStr("Types"),
                                            PyList(<< PyStr("INTEGER"), PyInt(0) >>) >>))
    /\ ~response.body.data.islist
    /\ IsError(response.body.data.env)
    /\ response.body.data.env.error.message =
          "TypeError: 'int' object is not subscriptable (Invalid object name "
             \o "'[['Types'], ['INTEGER', 0]]')"

(***************************************************************************)
(* Properties of the client contexts.                                      *)
(***************************************************************************)
\* the list path of the node that a context expression names: .name opens an
\* element, [item] adds an index to the last element
RECURSIVE ListPathOf(_, _, _)
ListPathOf(ops, k, path) ==
    IF k > Len(ops) THEN path
    ELSE IF ops[k].t = "attr"
    THEN ListPathOf(ops, k + 1, Append(path, PyList(<< PyStr(ops[k].name) >>)))
    ELSE ListPathOf(ops, k + 1,
                    [path EXCEPT ![Len(path)] = PyList(Append(@.xs, ops[k].item))])

\* the node of the expression without its last step, the method
NodeOf(ops) == RegistryGetItem(PyList(ListPathOf(SubSeq(ops, 1, Len(ops) - 1), 1, << >>)))

\* the record that ctx.<ops>(*args, **kwargs) queues on the context of the registry
QueuedBy(c) == SubCall(Navigate(ContextStep("", c.ops[1]), c.ops, 2).val, c.args, c.kwargs,
                       NoAttrs)

\* what C21 says of the logged dispatch e of the record of the container call c
AnsweredByNode(e, c) ==
    /\ RegistryGetItem(QueuedBy(c).d.object) = NodeOf(c.ops)
    /\ e.called # NoCall
    /\ e.called.id = NodeOf(c.ops).val.id
    /\ e.called.name = c.ops[Len(c.ops)].name
    /\ IsResult(e.response)

\* C21: a record queued through a context by dotted access and indexing, as
\* ctx.ObjectList[1].method_objects["a"].method(), carries an object path that the
\* registry resolves to the node ObjectList[1].method_objects["a"]: the call is
\* answered with the result of that node's method, not with an error.
C21_ContainerCallReachesItsNode ==
    \A c \in ContainerCalls :
        NodeOf(c.ops).ok =>
            \A k \in 1..Len(dispatch_log) :
                (IsList(request_obj) /\ RequestOf(dispatch_log[k]) = QueuedBy(c)) =>
                    AnsweredByNode(dispatch_log[k], c)

\* the future of ctx.ObjectList[1].method_objects["a"].method() has failed with the
\* error of an invalid object name
C21_ContainerCallRefused ==
    /\ mode = "cooperative"
    /\ last_flush.read = "decoded"
    /\ Len(last_flush.requests) = 1
    /\ last_flush.requests[1] =
          ClientRequest("ObjectList[1].method_objects['a']", "method", << >>, NoAttrs)
    /\ futures[last_flush.futures[1]] =
          Failed("TuberRemoteError",
                 "AttributeError: 'TuberRegistry' object has no attribute "
                    \o "'ObjectList[1].method_objects['a']' "
                    \o "(Invalid object name 'ObjectList[1].method_objects['a']')")

\* a __call__ has ended and no other has begun; read says how far it got
FlushEnded(read) == flushed.kind # "none" /\ last_flush.read = read

\* the futures of the batch of the last __call__
BatchFutures == { last_flush.futures[k] : k \in 1..Len(last_flush.futures) }

\* C23: every handle made by queueing a call is resolved or failed exactly once, in
\* the flush that sends its call, however that flush ends (envelopes for the calls,
\* one top-level error envelope, a status that is not 2xx, an unknown content type
\* of the response): the handle of a call still queued is pending, and no handle
\* of a batch is pending once its flush has ended.
C23_HandlesResolvedByTheirFlush ==
    mode = "cooperative" =>
        /\ \A k \in 1..Len(calls) : futures[calls[k].future] = Pending
        /\ (FlushEnded("decoded") \/ FlushEnded("status") \/ FlushEnded("content type")) =>
              \A n \in BatchFutures : futures[n].state \in {"result", "exception"}

\* a flush of two calls has ended on a response with status 500 and both handles
\* are pending
C23_PendingAfterStatus ==
    /\ mode = "cooperative"
    /\ FlushEnded("status")
    /\ flushed = Raised(Exc("TuberRemoteError",
                            "Request failed with status 500: Internal Server Error"))
    /\ Len(last_flush.futures) = 2
    /\ \A n \in BatchFutures : futures[n] = Pending

\* the kwargs of a call after kwargs.update(ctx_kwargs)
Merged(kwargs, ctxkw) ==
    [k \in DOMAIN kwargs \cup DOMAIN ctxkw |-> IF k \in DOMAIN ctxkw THEN ctxkw[k] ELSE kwargs[k]]

\* the invoke records of the calls of the model on a context with the arguments ctxkw
InvokeRecords(ctxkw) ==
    { [k \in {"object", "method", "args", "kwargs"} |->
          CASE k = "object" -> PyStr(c.object)
            [] k = "method" -> PyStr(c.method)
            [] k = "args" -> PyList(c.args)
            [] k = "kwargs" -> PyDict(Merged(c.kwargs, ctxkw))] : c \in ClientCalls }

\* a call of ctx.<Object>.<method>(...) has returned
Enqueues == Len(handles') = Len(handles) + 1

\* what C24 says of a step in which such a call returns
EnqueuesOneRecord ==
    /\ Len(calls') = Len(calls) + 1
    /\ SubSeq(calls', 1, Len(calls)) = calls
    /\ \/ calls'[Len(calls')].request.d \in InvokeRecords(ctx_kwargs)
       \/ calls'[Len(calls')].request \in { QueuedBy(c) : c \in ContainerCalls }
    /\ handles'[Len(handles')] # 0
    /\ handles'[Len(handles')] = calls'[Len(calls')].future
    /\ handles'[Len(handles')] \notin { handles[k] : k \in 1..Len(handles) }
    /\ Len(futures') >= handles'[Len(handles')]
    /\ futures'[handles'[Len(handles')]] = Pending
    /\ UNCHANGED << server_vars, cpc, flight, flushed, loop_vars >>

\* C24: ctx.<Object>.<method>(*args, **kwargs) on a context, serial or cooperative,
\* appends exactly one invoke record (object path, method, args, kwargs merged with
\* the keyword arguments of the context) to the end of the pending list and returns
\* a completion handle of that call; it sends nothing.
C24_EnqueueReturnsHandle == [][Enqueues => EnqueuesOneRecord]_vars

\* a call on a serial context has returned None
C24_SerialCallReturnsNone ==
    /\ mode = "serial"
    /\ cpc = "open"
    /\ handles = << 0 >>
    /\ Len(calls) = 1
    /\ futures = << >>

\* C25: when the scope of a context is left with calls pending the context flushes
\* them; after the scope is left the pending list is empty and every handle made
\* in the scope is resolved or failed, also when the flush fails.
C25_ScopeExitSettlesHandles ==
    cpc = "closed" =>
        /\ calls = << >>
        /\ \A n \in 1..Len(futures) : futures[n].state \in {"result", "exception"}

\* the flush of __aexit__ has ended on a top-level error envelope: the scope is left
\* and the handles of its two calls are pending
C25_PendingAfterScopeExit ==
    /\ cpc = "closed"
    /\ last_flush.exiting
    /\ FlushEnded("decoded")
    /\ ~json_out.islist
    /\ Len(last_flush.futures) = 2
    /\ \A n \in BatchFutures : futures[n] = Pending

\* the first envelope of the decoded response that is an error
FirstError(envs) == CHOOSE k \in 1..Len(envs) :
    IsError(envs[k]) /\ \A j \in 1..(k - 1) : ~IsError(envs[j])

\* the entry of the list of results for the envelope r
EntryOf(r) ==
    IF IsError(r) THEN [t |-> "exception", exc |-> Exc("TuberRemoteError", r.error.message)]
    ELSE r.result

\* C26: a flush with continue_on_error does not raise for error envelopes of calls:
\* it returns a list with an entry for each call in order, the result of the call
\* or, for a failed call, a RemoteError value; without continue_on_error the flush
\* raises the RemoteError of the first failed call.
C26_ContinueOnErrorReturnsErrors ==
    (FlushEnded("decoded") /\ json_out.islist) =>
        IF last_flush.continue_on_error
        THEN /\ flushed.kind = "returned"
             /\ Len(flushed.values) = Len(last_flush.requests)
             /\ \A k \in 1..Len(flushed.values) : flushed.values[k] = EntryOf(json_out.envs[k])
        ELSE IF \E k \in 1..Len(json_out.envs) : IsError(json_out.envs[k])
        THEN flushed = Raised(Exc("TuberRemoteError",
                                  json_out.envs[FirstError(json_out.envs)].error.message))
        ELSE /\ flushed.kind = "returned"
             /\ \A k \in 1..Len(flushed.values) : flushed.values[k] = json_out.envs[k].result

\* a cooperative flush with continue_on_error has raised the error of its second
\* call, whose envelope stands between two results
C26_CooperativeFlushRaises ==
    /\ mode = "cooperative"
    /\ FlushEnded("decoded")
    /\ last_flush.continue_on_error
    /\ json_out.islist
    /\ Len(json_out.envs) = 3
    /\ IsResult(json_out.envs[1])
    /\ IsError(json_out.envs[2])
    /\ IsResult(json_out.envs[3])
    /\ flushed.kind = "raised"
    /\ flushed.exc.cls = "TuberRemoteError"

\* what a caller sees of the end of a __call__: whether it returned or raised, the
\* values or the exception, and the warnings in order
Observation(how, events) ==
    [kind |-> how.kind,
     exc |-> IF how.kind = "raised" THEN how.exc ELSE Exc("", ""),
     values |-> IF how.kind = "returned" THEN how.values ELSE << >>,
     warnings |-> Messages(events, 1)]

\* the __call__ of a SimpleContext on the batch and the response of the last flush
SerialRun == Resolve("serial", json_out, last_flush, futures)

\* C27: a serial and a cooperative context that are given the same calls, flush
\* options and responses are observationally equivalent: the flush returns the
\* same list or raises the same kind of error, and the same warnings are emitted.
C27_ModesEquivalent ==
    (mode = "cooperative" /\ FlushEnded("decoded")) =>
        Observation(SerialRun.flushed, SerialRun.events) = Observation(flushed, trace)

\* a cooperative flush with continue_on_error has raised on a response for which
\* the serial flush returns a list
C27_SerialReturnsWhereCooperativeRaises ==
    /\ mode = "cooperative"
    /\ FlushEnded("decoded")
    /\ last_flush.continue_on_error
    /\ flushed.kind = "raised"
    /\ SerialRun.flushed.kind = "returned"
    /\ Len(SerialRun.flushed.values) = Len(last_flush.requests)

\* the warnings of the envelope r
WarningsOf(r) == IF "warnings" \in DOMAIN r THEN r.warnings ELSE << >>

\* the messages warnings.warn was called with for call k in events
WarnedFor(events, k) == Messages(SelectSeq(events, LAMBDA e : e.call = k), 1)

\* C28: the warnings of envelope i are emitted again on the client, in order, before
\* the outcome of call i is delivered (the future set, the entry appended, the
\* error raised), also when envelope i is an error.
C28_WarningsBeforeOutcome ==
    (FlushEnded("decoded") /\ json_out.islist) =>
        \A p \in 1..Len(trace) :
            trace[p].ev \in {"set", "append", "raise"} =>
                /\ WarnedFor(SubSeq(trace, 1, p - 1), trace[p].call)
                      = WarningsOf(json_out.envs[trace[p].call])
                /\ WarnedFor(SubSeq(trace, p + 1, Len(trace)), trace[p].call) = << >>

\* a flush has raised the error of a call after the warning of its envelope
C28_WarningOfFailedCall ==
    /\ FlushEnded("decoded")
    /\ json_out.islist
    /\ Len(trace) >= 2
    /\ trace[1].ev = "warn"
    /\ trace[1].call = 1
    /\ trace[2].ev = "raise"
    /\ trace[2].call = 1
    /\ IsError(json_out.envs[1])
    /\ client_warnings # << >>

\* the sessions made for the loop l
SessionsOf(l) == { s \in 1..Len(sessions) : sessions[s].loop = l }

\* what the loops and their sessions are in every state
SessionPerLoop ==
    /\ \A l \in LoopIds :
          /\ Cardinality(SessionsOf(l)) <= 1
          /\ loops[l].session # 0 =>
                /\ loops[l].session \in SessionsOf(l)
                /\ sessions[loops[l].session].state = "open"
                /\ loops[l].patched
                /\ ~loops[l].closed
          /\ loops[l].closed =>
                /\ loops[l].session = 0
                /\ \A s \in SessionsOf(l) : sessions[s].state = "closed"
                /\ loops[l].teardown[Len(loops[l].teardown)] = "loop_close"
          /\ (SessionsOf(l) # {} /\ ~loops[l].closed) => loops[l].session # 0
    /\ (cpc = "posted" /\ mode = "cooperative") =>
          /\ running # 0
          /\ flight.session # 0
          /\ flight.session = loops[running].session

\* a session is made only by a flush with calls queued, on a loop without one
SessionMadeByFirstFlush ==
    sessions' # sessions /\ Len(sessions') > Len(sessions) =>
        /\ cpc = "open"
        /\ cpc' = "posted"
        /\ calls # << >>
        /\ loops[running].session = 0
        /\ sessions' = Append(sessions, [loop |-> running, state |-> "open"])
        /\ flight'.session = Len(sessions')

\* a flush on a loop that has a session uses it
SessionReused ==
    (cpc = "open" /\ cpc' = "posted" /\ mode = "cooperative" /\ loops[running].session # 0) =>
        /\ UNCHANGED << loops, sessions >>
        /\ flight'.session = loops[running].session

\* the close of a loop with a session closes the session, removes it from the loop
\* and then runs the close the loop had
CloseTearsDown ==
    \A l \in LoopIds :
        (loops'[l].teardown # loops[l].teardown) =>
            /\ loops'[l].closed
            /\ loops'[l].session = 0
            /\ loops'[l].teardown = loops[l].teardown \o
                  (IF loops[l].session # 0
                   THEN << "session.close", "del _tuber_session", "loop_close" >>
                   ELSE << "loop_close" >>)
            /\ loops[l].session # 0 => sessions'[loops[l].session].state = "closed"

\* C29: a cooperative context keeps one HTTP session per event loop: the first
\* flush with calls on a loop makes the session of that loop, later flushes on the
\* loop use it, and the close of the loop closes the session, removes it from the
\* loop and then runs the loop's own close.
C29_OneSessionPerLoop ==
    /\ []SessionPerLoop
    /\ [][SessionMadeByFirstFlush /\ SessionReused /\ CloseTearsDown]_vars

\* two flushes have used the one session of loop 1 and the loop is closed
C29_SessionClosedWithLoop ==
    /\ Len(futures) = 2
    /\ futures[1].state = "result"
    /\ futures[2].state = "result"
    /\ last_flush.futures = << 2 >>
    /\ sessions = << [loop |-> 1, state |-> "closed"] >>
    /\ loops[1].closed
    /\ loops[1].teardown = << "session.close", "del _tuber_session", "loop_close" >>

\* C30: when a cooperative flush is cancelled, before or after its request was sent,
\* every handle of its batch fails with Cancelled, the batch is dropped and no handle
\* is left pending.
C30_CancelFailsHandles ==
    (FlushEnded("cancelled") \/ FlushEnded("unstarted")) =>
        /\ \A n \in BatchFutures :
              /\ futures[n].state = "exception"
              /\ futures[n].exc.cls = "CancelledError"
        /\ \A k \in 1..Len(calls) : calls[k].future \notin BatchFutures

\* a flush of two calls was cancelled in its POST: it raised CancelledError and both
\* handles are pending
C30_PendingAfterCancel ==
    /\ mode = "cooperative"
    /\ FlushEnded("cancelled")
    /\ flushed = Raised(Exc("CancelledError", ""))
    /\ calls = << >>
    /\ Len(last_flush.futures) = 2
    /\ \A n \in BatchFutures : futures[n] = Pending

\* the methods of the registry that change the filters: warnings.resetwarnings()
ChangesFilters(called) ==
    /\ "name" \in DOMAIN called
    /\ called.name \in {"single_warning", "multiple_warnings"}

\* no step of the handler changes the state of the warnings module
WarningsStateKept == warnings_module' = warnings_module

\* C35: when the capture scope around a method call is left, the method having
\* returned or raised, the filters and the display hook of the process are what
\* they were when the scope was entered, also when the method changed the filters.
C35_WarningStateRestored ==
    /\ [](warnings_module = InitialWarnings)
    /\ [][WarningsStateKept]_vars

\* two methods that reset the filters were called in capture scopes, the first
\* returned and the second raised, and the filters and the hook are the initial ones
C35_RestoredAfterReturnAndRaise ==
    /\ InBatch
    /\ Len(dispatch_log) = 2
    /\ dispatch_log[1].scoped
    /\ ChangesFilters(dispatch_log[1].called)
    /\ dispatch_log[1].failure = << >>
    /\ dispatch_log[1].emitted # << >>
    /\ dispatch_log[2].scoped
    /\ ChangesFilters(dispatch_log[2].called)
    /\ dispatch_log[2].failure # << >>
    /\ warnings_module.filters = DefaultFilters
    /\ warnings_module.hook = DefaultHook

\* the requests and the futures of the queue, in the order of the queue
QueuedRequests == [k \in 1..Len(calls) |-> calls[k].request]
QueuedFutures == [k \in 1..Len(calls) |-> calls[k].future]

\* a body leaves the client: the handler takes a request
Transmits == pc = "idle" /\ pc' # "idle"

\* a flush takes the whole queue, in order, and sends it as one body
SendsWholeQueue ==
    Transmits =>
        /\ cpc = "open"
        /\ cpc' = "posted"
        /\ calls # << >>
        /\ calls' = << >>
        /\ flight'.requests = QueuedRequests
        /\ mode = "cooperative" => flight'.futures = QueuedFutures
        /\ headers' = PostHeaders(flight'.continue_on_error)
        /\ (request_obj' # PyNone) => request_obj' = PyList(QueuedRequests)

\* the queue changes only by a flush that takes all of it or by a call that is put at
\* its end, in the cooperative context with a future no call had before
QueueChanges ==
    calls' # calls =>
        \/ Transmits /\ calls' = << >>
        \/ /\ ~Transmits
           /\ Len(calls') = Len(calls) + 1
           /\ SubSeq(calls', 1, Len(calls)) = calls
           /\ mode = "cooperative" =>
                 /\ calls'[Len(calls')].future = Len(futures) + 1
                 /\ Len(futures') = Len(futures) + 1

\* a flush of an empty queue returns [] and sends nothing
EmptyFlushSendsNothing ==
    (calls = << >> /\ cpc = "open" /\ cpc' = "open" /\ last_flush'.read = "empty"
        /\ flushed' # flushed) =>
        /\ flushed' = Returned(<< >>)
        /\ UNCHANGED << server_vars, flight, calls >>

\* a batch in flight is not changed, and no queued call is part of it
FlightApart ==
    /\ cpc = "posted" =>
          /\ flight.requests # << >>
          /\ mode = "cooperative" =>
                \A k \in 1..Len(calls) :
                    \A j \in 1..Len(flight.futures) : calls[k].future # flight.futures[j]
    /\ (cpc \in {"open", "closed"}) => flight = NoFlight

\* C38: every call queued on a context is sent in exactly one batch: a flush takes
\* all queued calls out of the context before it sends them, in the order they were
\* queued, so no call is sent twice and a call queued after a send belongs to the
\* next batch; a flush of an empty context returns an empty list and sends nothing.
C38_EachCallInOneBatch ==
    /\ []FlightApart
    /\ [][SendsWholeQueue /\ QueueChanges /\ EmptyFlushSendsNothing]_vars

\* the second flush of a scope is in flight with the one call queued after the first
C38_SecondBatchHoldsLaterCall ==
    /\ cpc = "posted"
    /\ mode = "cooperative"
    /\ Len(futures) = 3
    /\ last_flush.futures = << 1, 2 >>
    /\ last_flush.read = "decoded"
    /\ flight.futures = << 3 >>
    /\ Len(flight.requests) = 1
    /\ calls = << >>
    /\ request_obj = PyList(flight.requests)

\* a flush ends: its __call__ leaves the POST
FlushEnds == cpc = "posted" /\ cpc' # "posted"

\* a call is queued while a flush is suspended in its POST
QueuedInFlight ==
    (cpc = "posted" /\ Enqueues) =>
        /\ cpc' = "posted"
        /\ flight' = flight
        /\ UNCHANGED server_vars
        /\ futures'[handles'[Len(handles')]] = Pending
        /\ \A n \in 1..Len(futures) : futures'[n] = futures[n]

\* the end of a flush leaves the queue and the futures of the queued calls alone,
\* and gives the futures of its batch the envelopes at their positions
FlushEndsForItsBatch ==
    FlushEnds =>
        /\ calls' = calls
        /\ \A k \in 1..Len(calls) : futures'[calls[k].future] = Pending
        /\ (last_flush'.read = "decoded" /\ json_out'.islist) =>
              \A k \in 1..Min(Len(flight.futures), Len(json_out'.envs)) :
                  futures'[flight.futures[k]] = Resolution(json_out'.envs[k])

\* C39: a call queued on a cooperative context while a flush of it is suspended in
\* the POST is not part of the batch in flight: that flush does not send it and does
\* not resolve its handle, the handles of the batch in flight get the envelopes at
\* their own positions, and the new call stays queued and pending until a later flush.
C39_CallQueuedInFlightWaits ==
    /\ [](mode = "cooperative" =>
             \A k \in 1..Len(calls) : futures[calls[k].future] = Pending)
    /\ [][mode = "cooperative" => (QueuedInFlight /\ FlushEndsForItsBatch)]_vars

\* a flush of two calls has ended with both handles set while the call that was
\* queued during its POST is still queued and pending
C39_LaterCallStillQueued ==
    /\ mode = "cooperative"
    /\ cpc = "open"
    /\ FlushEnded("decoded")
    /\ last_flush.futures = << 1, 2 >>
    /\ futures[1].state = "result"
    /\ futures[2].state = "exception"
    /\ Len(calls) = 1
    /\ calls[1].future = 3
    /\ futures[3] = Pending
    /\ Len(json_out.envs) = 2

\* the envelopes a handler that has handled nothing before gives the items of xs
\* from item k on
RECURSIVE FreshResults(_, _, _, _)
FreshResults(xs, k, bail, continuing) ==
    IF k > Len(xs) THEN << >>
    ELSE IF bail THEN << Synthetic >> \o FreshResults(xs, k + 1, TRUE, continuing)
    ELSE << invoke(xs[k], InitialWarnings).response >>
         \o FreshResults(xs, k + 1,
                         "error" \in DOMAIN invoke(xs[k], InitialWarnings).response
                            /\ ~continuing,
                         continuing)

\* the registry and the warnings module are what they were when the handler was made
HandlerStateKept ==
    /\ registry = RegistryRoots
    /\ heap = RegistryObjects
    /\ warnings_module = InitialWarnings

\* between two requests nothing is left of the request before
NothingLeftOfRequest ==
    pc = "idle" =>
        /\ request_obj = PyNone
        /\ results = << >>
        /\ i = 0
        /\ ~early_bail
        /\ ~continue_on_error
        /\ response_format = DefaultFormat
        /\ response = NoResponse
        /\ dispatch_log = << >>

\* what is answered is what a handler that has handled nothing before answers
AnsweredAsTheFirstRequest ==
    /\ InBatch =>
          SubSeq(results, 1, i) =
             SubSeq(FreshResults(request_obj.xs, 1, FALSE, continue_on_error), 1, i)
    /\ BatchDone =>
          response = Encoding(Listed(FreshResults(request_obj.xs, 1, FALSE,
                                                  continue_on_error)),
                              response_format)
    /\ (pc = "done" /\ IsDict(request_obj)) =>
          response = Encoding(Single(invoke(request_obj, InitialWarnings).response),
                              response_format)

\* C37: handling a request does not change the state of the handler: after any
\* sequence of requests (that succeed or fail, batches, describes, calls) the roots
\* of the registry and what they are bound to are what they were, and a request is
\* answered as it would be by a handler that has handled nothing before.
C37_HandlerStateUnchanged ==
    /\ [](HandlerStateKept /\ NothingLeftOfRequest /\ AnsweredAsTheFirstRequest)
    /\ [][UNCHANGED registry_vars]_vars

\* a batch of a describe, a call that fails and a call that returns has been
\* answered under continue-on-error, and the registry is the initial one
C37_MixedBatchAnswered ==
    /\ BatchDone
    /\ continue_on_error
    /\ Len(request_obj.xs) = 3
    /\ Len(dispatch_log) = 3
    /\ \E k \in 1..3 : dispatch_log[k].called = NoCall /\ dispatch_log[k].failure = << >>
    /\ \E k \in 1..3 : dispatch_log[k].failure # << >>
    /\ \E k \in 1..3 : dispatch_log[k].scoped /\ dispatch_log[k].failure = << >>
    /\ registry = RegistryRoots
    /\ heap = RegistryObjects

(***************************************************************************)
(* tuber_resolve and attribute access of the proxies.  The proxies are     *)
(* SimpleTuberObjects: their context is the serial one, and the answer of  *)
(* the server is the handler's for the batch of the one resolve request.   *)
(***************************************************************************)
\* the requests the proxies may post
MaxResolves == 3

\* self._tuber_objname of the proxy: None stands for the registry
ObjName(p) == IF p = "" THEN PyNone ELSE PyStr(p)

\* f"{self._tuber_objname}"
ObjNameStr(p) == IF p = "" THEN "None" ELSE p

\* ctx._add_call(object=self._tuber_objname, resolve=True)
ResolveRequest(p) == Req2("object", ObjName(p), "resolve", PyBool(TRUE))

\* for name in getattr(meta, key, []) or []
MetaNames(meta, key) ==
    IF key \in DOMAIN meta.d /\ meta.d[key].t = "dict" THEN DOMAIN meta.d[key].d ELSE {}

\* what setattr leaves under a name: the objects are installed first, then the
\* methods, then the properties, each over what is already there; made tells the
\* objects of one _resolve_meta from those of another
InstalledAttr(meta, n, made) ==
    IF n \in MetaNames(meta, "properties")
    THEN [kind |-> "property", of |-> meta.d["properties"].d[n], made |-> 0]
    ELSE IF n \in MetaNames(meta, "methods")
    THEN [kind |-> "method", of |-> meta.d["methods"].d[n], made |-> made]
    ELSE [kind |-> "object", of |-> meta.d["objects"].d[n], made |-> made]

\* _resolve_meta: the attributes of the proxy after it; the container branch is
\* taken when the descriptor has the attribute "container", and installs _items
resolve_meta(proxy, meta) ==
    [meta |-> meta,
     attrs |-> [n \in DOMAIN proxy.attrs
                      \cup MetaNames(meta, "objects") \cup MetaNames(meta, "methods")
                      \cup MetaNames(meta, "properties")
                      \cup (IF "container" \in DOMAIN meta.d THEN {"_items"} ELSE {}) |->
                   IF n \in MetaNames(meta, "objects") \cup MetaNames(meta, "methods")
                               \cup MetaNames(meta, "properties")
                   THEN InstalledAttr(meta, n, proxy.made + 1)
                   ELSE IF n = "_items" /\ "container" \in DOMAIN meta.d
                   THEN [kind |-> "items", of |-> meta.d["items"], made |-> proxy.made + 1]
                   ELSE proxy.attrs[n]],
     made |-> proxy.made + 1]

\* with self.tuber_context() as ctx: ...; meta = ctx(): the POST of the request and
\* what SimpleContext.receive makes of the response
ResolveCall(p, w) ==
    Received("serial",
             Delivered(Encoding(Listed(<< invoke(ResolveRequest(p), w).response >>), JSON)),
             [continue_on_error |-> FALSE, futures |-> << >>], << >>, NoMeta).flushed

Operation(op, p, arg, how) == [op |-> op, proxy |-> p, arg |-> arg, how |-> how]

\* tuber_resolve as it would be if it never asked the server again
tuber_resolve_cached(p, force) ==
    /\ Len(proxy_sent) < MaxResolves
    /\ IF proxies[p].meta # NoMeta
       THEN /\ proxy_out' = Operation("tuber_resolve", p, force,
                                      Returned(<< proxies[p].meta >>))
            /\ UNCHANGED << proxies, proxy_sent >>
       ELSE /\ proxy_sent' = Append(proxy_sent, [proxy |-> p, request |-> ResolveRequest(p)])
            /\ proxy_out' = Operation("tuber_resolve", p, force,
                                      IF ResolveCall(p, warnings_module).kind = "raised"
                                      THEN ResolveCall(p, warnings_module)
                                      ELSE Returned(<< ResolveCall(p, warnings_module).values[1] >>))
            /\ proxies' = IF ResolveCall(p, warnings_module).kind = "raised" THEN proxies
                          ELSE [proxies EXCEPT ![p] =
                                   resolve_meta(@, ResolveCall(p, warnings_module).values[1])]

\* tuber_resolve(force): without force the stored descriptor is returned; else the
\* descriptor is requested, and _resolve_meta installs it if the call returned
tuber_resolve(p, force) ==
    /\ Len(proxy_sent) < MaxResolves
    /\ IF ~force /\ proxies[p].meta # NoMeta
       THEN /\ proxy_out' = Operation("tuber_resolve", p, force,
                                      Returned(<< proxies[p].meta >>))
            /\ UNCHANGED << proxies, proxy_sent >>
       ELSE /\ proxy_sent' = Append(proxy_sent, [proxy |-> p, request |-> ResolveRequest(p)])
            /\ proxy_out' = Operation("tuber_resolve", p, force,
                                      IF ResolveCall(p, warnings_module).kind = "raised"
                                      THEN ResolveCall(p, warnings_module)
                                      ELSE Returned(<< ResolveCall(p, warnings_module).values[1] >>))
            /\ proxies' = IF ResolveCall(p, warnings_module).kind = "raised" THEN proxies
                          ELSE [proxies EXCEPT ![p] =
                                   resolve_meta(@, ResolveCall(p, warnings_module).values[1])]

\* the attributes read from the proxies
AttrNames == {"increment", "Types", "INTEGER", "integer_function", "nothing"}

\* __getattr__, called when the normal lookup has not found the name
getattr_missing(p, name) ==
    Raised(Exc("AttributeError",
               "'" \o ObjNameStr(p) \o "' has no attribute '" \o name
                   \o "'.  Did you run tuber_resolve()?"))

\* proxy.<name>: the attribute installed under the name, else __getattr__
ReadAttr(p, name) ==
    /\ proxy_out' = Operation("getattr", p, name,
                              IF name \in DOMAIN proxies[p].attrs
                              THEN Returned(<< proxies[p].attrs[name] >>)
                              ELSE getattr_missing(p, name))
    /\ UNCHANGED << proxies, proxy_sent >>

ProxyResolves ==
    /\ \E p \in ProxyNames : \E force \in BOOLEAN : tuber_resolve(p, force)
    /\ UNCHANGED << server_vars, client_vars, codec_vars, thread_vars, task_vars >>

ProxyGets ==
    /\ \E p \in ProxyNames : \E name \in AttrNames : ReadAttr(p, name)
    /\ UNCHANGED << server_vars, client_vars, codec_vars, thread_vars, task_vars >>

ProxyNext == ProxyResolves \/ ProxyGets

ProxySpec == Init /\ [][ProxyNext]_vars

(***************************************************************************)
(* The descriptor cache of a proxy.                                        *)
(***************************************************************************)
\* the step is a tuber_resolve(force) on proxy p, which holds a descriptor
ResolvesAgain(p, force) ==
    /\ proxy_out'.op = "tuber_resolve"
    /\ proxy_out'.proxy = p
    /\ proxy_out'.arg = force
    /\ proxies[p].meta # NoMeta

\* the stored descriptor is returned, nothing is sent, nothing of the proxies changes
AnsweredFromCache(p) ==
    /\ proxy_out'.how = Returned(<< proxies[p].meta >>)
    /\ proxy_sent' = proxy_sent
    /\ proxies' = proxies

\* the descriptor is requested once more
AsksAgain(p) ==
    proxy_sent' = Append(proxy_sent, [proxy |-> p, request |-> ResolveRequest(p)])

ReadUnresolved ==
    /\ proxy_out.op = "getattr"
    /\ proxies[proxy_out.proxy].meta = NoMeta

\* C32 as stated: reading a remote method or property of a proxy that has not been
\* resolved fails with TuberStateError, not with another kind of error.
C32_UnresolvedAccessIsStateError ==
    ReadUnresolved =>
        /\ proxy_out.how.kind = "raised"
        /\ proxy_out.how.exc.cls = "TuberStateError"

\* the method increment is read from the unresolved proxy of Wrapper: AttributeError,
\* and no request has been sent
C32_AttributeErrorRaised ==
    /\ proxy_out = Operation("getattr", "Wrapper", "increment",
                             Raised(Exc("AttributeError",
                                        "'Wrapper' has no attribute 'increment'.  Did you run tuber_resolve()?")))
    /\ proxies["Wrapper"].meta = NoMeta
    /\ proxy_sent = << >>

(***************************************************************************)
(* CBOR typed arrays.  A byte string is a sequence of bytes; the value of  *)
(* an element of an array is the sequence of its bytes, least significant  *)
(* first, so that reading bytes in the wrong order gives another value.    *)
(***************************************************************************)
\* the longest byte string handed to the decoder
MaxPayload == 17

PyBytes(b) == [t |-> "bytes", b |-> b]

\* the byte string of n bytes 1, 2, ..., n
SomeBytes(n) == PyBytes([k \in 1..n |-> k])

Reversed(xs) == [k \in 1..Len(xs) |-> xs[Len(xs) + 1 - k]]

\* the value of the element stored in the bytes bs, and the bytes of a value
FromBytes(bs, little) == IF little THEN bs ELSE Reversed(bs)

ToBytes(v, little) == IF little THEN v ELSE Reversed(v)

\* tag.tag & mask
Masked(tag, mask) == ((tag \div mask) % 2) * mask

\* element_size as it would be if floats were not one power of two larger
element_size_from_low_bits(tag) == 2 ^ (tag % 4)

\* ll = tag.tag & 0x3; element_size = 1 << ll; if is_float: element_size <<= 1
element_size(tag) ==
    IF Masked(tag, 16) # 0 THEN 2 * (2 ^ (tag % 4)) ELSE 2 ^ (tag % 4)

\* the characters of the dtype string: '<' if is_le else '>', then 'f' if is_float
\* else 'i' if is_signed else 'u'
OrderChar(tag) == IF Masked(tag, 4) # 0 THEN "<" ELSE ">"

KindChar(tag) ==
    IF Masked(tag, 16) # 0 THEN "f" ELSE IF Masked(tag, 8) # 0 THEN "i" ELSE "u"

Dtype(kind, itemsize, byteorder) ==
    [kind |-> kind, itemsize |-> itemsize, byteorder |-> byteorder]

\* numpy.dtype(f"{order}{kind}{size}") on the host: a float of 16 bytes is a type
\* only where the C long double has 16 bytes; dtype.byteorder is '|' for one byte,
\* '=' for the order of the host
numpy_dtype(order, kind, size, host) ==
    IF kind = "f" /\ size = 16 /\ ~host.f16
    THEN Raise("TypeError", "data type '" \o order \o kind \o ToString(size)
                                \o "' not understood")
    ELSE Return(Dtype(kind, size,
                      IF size = 1 THEN "|"
                      ELSE IF (order = "<") = host.little THEN "=" ELSE order))

\* the bytes of the elements of the dtype are stored least significant first
IsLittle(dtype, host) ==
    dtype.byteorder = "<" \/ (dtype.byteorder = "=" /\ host.little)

\* an ndarray: vals are the elements in row-major order of their indices; layout
\* is the order of the elements in memory, "C" (row-major), "F" (column-major)
\* or "strided" (neither)
NdArray(dtype, shape, layout, vals) ==
    [t |-> "ndarray", dtype |-> dtype, shape |-> shape, layout |-> layout, vals |-> vals]

\* arr.data.cast('B')[:] = tag.value on numpy.zeros(n // element_size, dtype=dt)
Splat(b, size, dtype, host) ==
    NdArray(dtype, << Len(b) \div size >>, "C",
            [k \in 1..(Len(b) \div size) |->
                FromBytes(SubSeq(b, (k - 1) * size + 1, k * size), IsLittle(dtype, host))])

\* cbor_tag_decode for 64 <= tag <= 87, tag != 76; the text of the decode error
\* goes on with the dtype
DecodeTypedArray(tag, value, host) ==
    IF ~numpy_dtype(OrderChar(tag), KindChar(tag), element_size(tag), host).ok
    THEN numpy_dtype(OrderChar(tag), KindChar(tag), element_size(tag), host)
    ELSE IF Len(value.b) % element_size(tag) # 0
    THEN Raise("CBORDecodeValueError",
               "Invalid data size (" \o ToString(Len(value.b))
                   \o ") for typed array with tag " \o ToString(tag))
    ELSE Return(Splat(value.b, element_size(tag),
                      numpy_dtype(OrderChar(tag), KindChar(tag), element_size(tag),
                                  host).val, host))

\* the number of elements of an array of the shape
RECURSIVE SizeOf(_)
SizeOf(shape) == IF shape = << >> THEN 1 ELSE Head(shape) * SizeOf(Tail(shape))

\* an array that has no elements, or at most one extent that is not 1, is stored
\* in row-major and in column-major order at once
Trivial(shape) ==
    SizeOf(shape) = 0 \/ Cardinality({ k \in 1..Len(shape) : shape[k] # 1 }) <= 1

\* the layout of an array of the shape whose memory is in the order
Canon(shape, order) == IF order \in {"C", "F"} /\ Trivial(shape) THEN "C" ELSE order

\* arr.flags.c_contiguous, arr.flags.f_contiguous
c_contiguous(arr) == arr.layout = "C"

f_contiguous(arr) == arr.layout = "F" \/ (arr.layout = "C" /\ Trivial(arr.shape))

\* the position in row-major order of the element that is k-th in column-major
\* order, for a shape of two extents
RowMajorOf(k, shape) == ((k - 1) % shape[1]) * shape[2] + ((k - 1) \div shape[1]) + 1

\* the position in column-major order of the element that is k-th in row-major
\* order, for a shape of two extents
ColMajorOf(k, shape) == ((k - 1) % shape[2]) * shape[1] + ((k - 1) \div shape[2]) + 1

\* the elements of a contiguous array in the order of its memory
Memory(arr) ==
    IF arr.layout = "F"
    THEN [k \in 1..Len(arr.vals) |-> arr.vals[RowMajorOf(k, arr.shape)]]
    ELSE arr.vals

\* flat.reshape(shape, order=order) of a flat array: the elements are read in the
\* order of the flat array and placed in the given order of the indices
Reshape(flat, shape, order) ==
    IF \E k \in 1..Len(shape) : shape[k].t # "int"
    THEN Raise("TypeError", "'" \o shape[CHOOSE k \in 1..Len(shape) : shape[k].t # "int"].t
                                \o "' object cannot be interpreted as an integer")
    ELSE IF SizeOf([k \in 1..Len(shape) |-> shape[k].n]) # Len(flat.vals)
    THEN Raise("ValueError", "cannot reshape array of size " \o ToString(Len(flat.vals)))
    ELSE Return(NdArray(flat.dtype, [k \in 1..Len(shape) |-> shape[k].n],
                        Canon([k \in 1..Len(shape) |-> shape[k].n], order),
                        IF Canon([k \in 1..Len(shape) |-> shape[k].n], order) = "F"
                        THEN [k \in 1..Len(flat.vals) |->
                                 flat.vals[ColMajorOf(k, [j \in 1..Len(shape) |-> shape[j].n])]]
                        ELSE flat.vals))

\* cbor_tag_decode for tags 40 and 1040
DecodeMultiDim(tag, value) ==
    IF value.t # "list"
    THEN Raise("CBORDecodeValueError",
               "Invalid raw data for multi-dimensional array tag (" \o ToString(tag) \o ")")
    ELSE IF Len(value.xs) # 2
    THEN Raise("CBORDecodeValueError",
               "Invalid raw array length for multi-dimensional array tag ("
                   \o ToString(tag) \o ")")
    ELSE IF value.xs[1].t # "list" \/ value.xs[2].t # "ndarray"
    THEN Raise("CBORDecodeValueError",
               "Invalid raw data for multi-dimensional array tag (" \o ToString(tag) \o ")")
    ELSE Reshape(value.xs[2], value.xs[1].xs, IF tag = 40 THEN "C" ELSE "F")

\* cbor_tag_decode(dec, tag) where numpy is there: None for a tag it does not know
cbor_tag_decode(tag, value, host) ==
    IF tag >= 64 /\ tag <= 87 /\ tag # 76 THEN DecodeTypedArray(tag, value, host)
    ELSE IF tag = 40 \/ tag = 1040 THEN DecodeMultiDim(tag, value)
    ELSE Return(PyNone)

\* type_tags: the tags of the big-endian typed arrays
type_tags(kind) ==
    CASE kind = "u" -> [sz \in {1, 2, 4, 8} |-> CASE sz = 1 -> 64 [] sz = 2 -> 65
                                                  [] sz = 4 -> 66 [] sz = 8 -> 67]
      [] kind = "i" -> [sz \in {1, 2, 4, 8} |-> CASE sz = 1 -> 72 [] sz = 2 -> 73
                                                  [] sz = 4 -> 74 [] sz = 8 -> 75]
      [] kind = "f" -> [sz \in {2, 4, 8, 16} |-> CASE sz = 2 -> 80 [] sz = 4 -> 81
                                                   [] sz = 8 -> 82 [] sz = 16 -> 83]
      [] OTHER -> [sz \in {} |-> 0]

\* add 4 to type tag if little endian if sizeof(type) > 1
type_tag(dtype, host) ==
    type_tags(dtype.kind)[dtype.itemsize]
        + (IF dtype.itemsize > 1
              /\ (dtype.byteorder = "<" \/ (dtype.byteorder = "=" /\ host.little))
           THEN 4 ELSE 0)

\* the bytes of arr.data
RECURSIVE Flatten(_, _)
Flatten(chunks, k) ==
    IF k > Len(chunks) THEN << >> ELSE chunks[k] \o Flatten(chunks, k + 1)

\* what the encoder has written: the tag of the multi-dimensional array, the
\* extents, the tag of the typed array and its byte string
Written(md_tag, extents, tag, payload) ==
    [md_tag |-> md_tag, extents |-> extents, type_tag |-> tag, payload |-> payload]

\* if arr.flags.c_contiguous: md_tag = 40 elif arr.flags.f_contiguous: md_tag = 1040
md_tag(arr) == IF c_contiguous(arr) THEN 40 ELSE 1040

\* enc.fp.write(arr.data), enc.fp being the BytesIO of cbor2.dumps: write takes a
\* buffer that is C-contiguous, and raises BufferError for any other
fp_write(arr, host) ==
    IF ~c_contiguous(arr)
    THEN Raise("BufferError", "memoryview: underlying buffer is not C-contiguous")
    ELSE Return(Flatten([k \in 1..Len(arr.vals) |->
                            ToBytes(Memory(arr)[k], IsLittle(arr.dtype, host))], 1))

\* cbor_encode_ndarray(enc, arr): what is written when it returns
cbor_encode_ndarray(arr, host) ==
    IF arr.dtype.itemsize \notin DOMAIN type_tags(arr.dtype.kind)
    THEN Raise("CBOREncodeTypeError",
               "Serialization of numpy arrays with element type " \o arr.dtype.kind
                   \o ToString(arr.dtype.itemsize) \o " is not implemented")
    ELSE IF ~c_contiguous(arr) /\ ~f_contiguous(arr)
    THEN Raise("CBOREncodeTypeError",
               "Serialization of non-contiguous numpy arrays is not implemented")
    ELSE IF ~fp_write(arr, host).ok THEN fp_write(arr, host)
    ELSE Return(Written(md_tag(arr), arr.shape, type_tag(arr.dtype, host),
                        fp_write(arr, host).val))

\* cbor2.loads(data, tag_hook=cbor_tag_decode) of what the encoder wrote: the hook
\* is called for the inner tag, then for the outer one with the value of the inner
loads(written, host) ==
    IF ~cbor_tag_decode(written.type_tag, PyBytes(written.payload), host).ok
    THEN cbor_tag_decode(written.type_tag, PyBytes(written.payload), host)
    ELSE cbor_tag_decode(written.md_tag,
                         PyList(<< PyList([k \in 1..Len(written.extents) |->
                                              PyInt(written.extents[k])]),
                                   cbor_tag_decode(written.type_tag,
                                                   PyBytes(written.payload), host).val >>),
                         host)

\* the dtypes of the arrays handed to the encoder on the host
Dtypes(host) ==
    { Dtype(kind, sz, IF sz = 1 THEN "|" ELSE order) :
        kind \in {"u", "i"}, sz \in {1, 2, 4, 8},
        order \in {"=", IF host.little THEN ">" ELSE "<"} }
    \cup { Dtype("f", sz, order) :
             sz \in {2, 4, 8} \cup (IF host.f16 THEN {16} ELSE {12}),
             order \in {"=", IF host.little THEN ">" ELSE "<"} }
    \cup { Dtype("c", sz, order) :
             sz \in {8, 16}, order \in {"=", IF host.little THEN ">" ELSE "<"} }
    \cup { Dtype("b", 1, "|") }

ArrayShapes == { << >>, << 3 >>, << 2, 3 >>, << 3, 2 >>, << 1, 3 >>, << 2, 0 >> }

\* element k of an array handed to the encoder holds the number k
Elements(shape, sz) ==
    [k \in 1..SizeOf(shape) |-> [b \in 1..sz |-> IF b = 1 THEN k ELSE 0]]

\* the layouts an array of the shape can have: row-major, column-major where that
\* is another order, and a slice that is in neither
Layouts(shape) ==
    {"C"} \cup (IF Trivial(shape) THEN {} ELSE {"F"})
          \cup (IF SizeOf(shape) >= 2 THEN {"strided"} ELSE {})

\* the arrays handed to the encoder
InputArrays(host) ==
    UNION { { NdArray(dtype, shape, layout, Elements(shape, dtype.itemsize)) :
                layout \in Layouts(shape) } :
            dtype \in Dtypes(host), shape \in ArrayShapes }

\* the tags handed to the decoder, and the values of the tags of multi-dimensional
\* arrays that are not what the encoder writes
DecodedTags == 63..88

MultiDimTags == {40, 1040}

FlatArray == NdArray(Dtype("u", 1, "|"), << 6 >>, "C", Elements(<< 6 >>, 1))

MultiDimValues ==
    { PyInt(7), PyList(<< PyList(<< PyInt(6) >>) >>),
      PyList(<< PyInt(6), FlatArray >>),
      PyList(<< PyList(<< PyInt(6) >>), SomeBytes(6) >>),
      PyList(<< PyList(<< PyInt(4) >>), FlatArray >>),
      PyList(<< PyList(<< PyStr("6") >>), FlatArray >>),
      PyList(<< PyList(<< PyInt(2), PyInt(3) >>), FlatArray >>) }

\* cbor2.dumps(arr, default=cbor_augment_encode) and, if it returns, cbor2.loads of
\* what it wrote; one call of the codec is looked at in each behaviour
ArrayRoundTrip ==
    /\ codec_op = NoOperation
    /\ \E arr \in InputArrays(codec_host) :
          codec_op' = [op |-> "dumps", arr |-> arr,
                       written |-> cbor_encode_ndarray(arr, codec_host),
                       out |-> IF cbor_encode_ndarray(arr, codec_host).ok
                               THEN loads(cbor_encode_ndarray(arr, codec_host).val,
                                          codec_host)
                               ELSE cbor_encode_ndarray(arr, codec_host)]
    /\ UNCHANGED << server_vars, client_vars, proxy_vars, codec_host, thread_vars, task_vars >>

\* the tag hook is called for a tag with a byte string
TagDecode ==
    /\ codec_op = NoOperation
    /\ \E tag \in DecodedTags : \E n \in 0..MaxPayload :
          codec_op' = [op |-> "decode", tag |-> tag, value |-> SomeBytes(n),
                       out |-> cbor_tag_decode(tag, SomeBytes(n), codec_host)]
    /\ UNCHANGED << server_vars, client_vars, proxy_vars, codec_host, thread_vars, task_vars >>

\* the tag hook is called for a tag of a multi-dimensional array
MultiDimDecode ==
    /\ codec_op = NoOperation
    /\ \E tag \in MultiDimTags : \E value \in MultiDimValues :
          codec_op' = [op |-> "decode", tag |-> tag, value |-> value,
                       out |-> cbor_tag_decode(tag, value, codec_host)]
    /\ UNCHANGED << server_vars, client_vars, proxy_vars, codec_host, thread_vars, task_vars >>

CodecInit ==
    /\ ServerInit
    /\ ClientInit
    /\ ProxyInit
    /\ CodecStarts(Hosts)
    /\ ThreadInit
    /\ TaskInit

CodecNext == ArrayRoundTrip \/ TagDecode \/ MultiDimDecode

CodecSpec == CodecInit /\ [][CodecNext]_vars

(***************************************************************************)
(* The element type the decoder derives from the tag of a typed array.     *)
(***************************************************************************)
\* bit b of the tag is set
BitSet(tag, b) == (tag \div (2 ^ b)) % 2 = 1

\* the hook was called for the tag of a typed array
DecodedTyped ==
    /\ codec_op.op = "decode"
    /\ codec_op.tag \in (64..87) \ {76}

\* the decoder returned a flat array of n / size elements of size bytes whose kind
\* and byte order are those of bits 4, 3 and 2 of the tag
ElementTypeOfBits(tag, n, size, out, host) ==
    /\ out.ok
    /\ out.val.t = "ndarray"
    /\ out.val.dtype.itemsize = size
    /\ out.val.dtype.kind = (IF BitSet(tag, 4) THEN "f" ELSE IF BitSet(tag, 3) THEN "i" ELSE "u")
    /\ size > 1 => (IsLittle(out.val.dtype, host) <=> BitSet(tag, 2))
    /\ out.val.shape = << n \div size >>

\* a byte string whose length is not a multiple of size is rejected with a decode
\* error, any other is decoded with elements of that size
DecodedWithSize(tag, n, size, out, host) ==
    IF n % size # 0
    THEN ~out.ok /\ out.exc.cls = "CBORDecodeValueError"
    ELSE ElementTypeOfBits(tag, n, size, out, host)

\* C33 as stated: for a typed-array tag t the element size is 2^(t mod 4), bit 2
\* selects little-endian, bit 3 signed, bit 4 float, and a byte string whose length
\* is not a multiple of that size is rejected with a decode error.
C33_SizeFromLowBits ==
    DecodedTyped =>
        DecodedWithSize(codec_op.tag, Len(codec_op.value.b), 2 ^ (codec_op.tag % 4),
                        codec_op.out, codec_host)

\* C33, amended: the element size is 2^(t mod 4) for the integer tags and
\* 2^((t mod 4) + 1) for the float tags (bit 4 set); bit 2 selects little-endian,
\* bit 3 signed, bit 4 float, and a byte string whose length is not a multiple of
\* that size is rejected with a decode error; on a host whose numpy has no float of
\* 16 bytes the tags 83 and 87 fail with TypeError.
C33_FloatsOnePowerLarger ==
    DecodedTyped =>
        IF codec_op.tag \in {83, 87} /\ ~codec_host.f16
        THEN ~codec_op.out.ok /\ codec_op.out.exc.cls = "TypeError"
        ELSE DecodedWithSize(codec_op.tag, Len(codec_op.value.b),
                             IF BitSet(codec_op.tag, 4) THEN 2 ^ ((codec_op.tag % 4) + 1)
                             ELSE 2 ^ (codec_op.tag % 4),
                             codec_op.out, codec_host)

\* tag 85 with 8 bytes on a little-endian host: two floats of 4 bytes, in the order
\* of the host; the low bits of the tag are 01
C33_TwoLittleEndianFloats ==
    /\ codec_host.little
    /\ codec_op = [op |-> "decode", tag |-> 85, value |-> SomeBytes(8),
                   out |-> Return(NdArray(Dtype("f", 4, "="), << 2 >>, "C",
                                          << << 1, 2, 3, 4 >>, << 5, 6, 7, 8 >> >>))]

(***************************************************************************)
(* The round trip of an array through the encoder and the decoder.         *)
(***************************************************************************)
\* an array was handed to cbor2.dumps
Dumped == codec_op.op = "dumps"

\* the decoder gave an array of the kind, item size, byte order and shape of the
\* array that was encoded, in the same order in memory and with the same elements
Restored(arr, out, host) ==
    /\ out.ok
    /\ out.val.t = "ndarray"
    /\ out.val.dtype.kind = arr.dtype.kind
    /\ out.val.dtype.itemsize = arr.dtype.itemsize
    /\ arr.dtype.itemsize > 1 => (IsLittle(out.val.dtype, host) <=> IsLittle(arr.dtype, host))
    /\ out.val.shape = arr.shape
    /\ out.val.layout = arr.layout
    /\ out.val.vals = arr.vals

\* C34 as stated: an array of a supported kind, item size and byte order that is
\* contiguous in row-major or in column-major order is encoded with tag 40 or 1040
\* and decoded back to the same kind, size, byte order and shape in the same memory
\* order; a non-contiguous array or one of an unsupported element kind fails with
\* an encode error.
C34_ArrayRoundTrip ==
    Dumped =>
        IF /\ codec_op.arr.dtype.itemsize \in DOMAIN type_tags(codec_op.arr.dtype.kind)
           /\ codec_op.arr.layout \in {"C", "F"}
        THEN /\ codec_op.written.ok
             /\ codec_op.written.val.md_tag = (IF codec_op.arr.layout = "C" THEN 40 ELSE 1040)
             /\ Restored(codec_op.arr, codec_op.out, codec_host)
        ELSE /\ ~codec_op.written.ok
             /\ codec_op.written.exc.cls = "CBOREncodeTypeError"

\* an array of 2 x 3 floats of 8 bytes in column-major order: the encoder chooses
\* tag 1040 and then fails in the write of the buffer
C34_ColumnMajorNotWritten ==
    /\ Dumped
    /\ codec_op.arr = NdArray(Dtype("f", 8, "="), << 2, 3 >>, "F", Elements(<< 2, 3 >>, 8))
    /\ f_contiguous(codec_op.arr) /\ md_tag(codec_op.arr) = 1040
    /\ codec_op.written = Raise("BufferError",
                                "memoryview: underlying buffer is not C-contiguous")
    /\ codec_op.out = codec_op.written

(***************************************************************************)
(* invoke on two threads.  Each thread runs the try block of invoke, then  *)
(* the with block in three steps: catch_warnings.__enter__, the call of    *)
(* the method, and the end of the block (the warnings are attached and     *)
(* __exit__ puts back what __enter__ saved).  That threads run invoke side *)
(* by side is what the transport does; a thread may be switched between    *)
(* any two of the steps.                                                   *)
(***************************************************************************)
\* the recording lists the threads may make
MaxDispatches == 3

\* the requests the connections send
ParallelRequests ==
    { ClientRequest("Warnings", "single_warning", << PyStr("one") >>, NoAttrs),
      ClientRequest("Warnings", "single_warning", << PyStr("two") >>,
                    Attrs1("error", PyBool(TRUE))),
      ClientRequest("Types", "integer_function", << >>, NoAttrs),
      CallMethod("Nope", "method") }

\* what the try block of invoke makes of the request
Tried(request) ==
    TryDispatch(request, And(HasKey(request, "object"), HasKey(request, "method"))).r

\* the warnings module as the code of one thread sees it
ModuleSeen(m, lists) ==
    [filters |-> m.filters,
     hook |-> IF m.hook = 0 THEN DefaultHook ELSE RecordHook(lists[m.hook])]

\* the try block; if it leaves a method to call, catch_warnings(record=True).__enter__:
\* the filters and the hook are saved, the filters are copied, a new list is the hook
Enters(t, request) ==
    /\ workers[t].at = "idle"
    /\ Len(wlists) < MaxDispatches
    /\ IF ~Tried(request).ok \/ Tried(request).val.returned
       THEN /\ workers' = [workers EXCEPT ![t] =
                              [at |-> "answered",
                               emitted |-> << >>,
                               envelope |-> Completion(Tried(request),
                                                       ModuleSeen(wmodule, wlists)).response]]
            /\ UNCHANGED << wmodule, wlists >>
       ELSE /\ workers' = [workers EXCEPT ![t] =
                              [at |-> "entered", call |-> Tried(request).val,
                               saved |-> wmodule, wlist |-> Len(wlists) + 1]]
            /\ wlists' = Append(wlists, << >>)
            /\ wmodule' = [filters |-> wmodule.filters, hook |-> Len(wlists) + 1]

\* what the method of thread t does, under the module as it is now
CallOf(t) ==
    Call(workers[t].call.method, workers[t].call.args, workers[t].call.kwargs,
         ModuleSeen(wmodule, wlists))

\* method(*args, **kwargs): its warnings go to the hook that is installed now
Calls(t) ==
    /\ workers[t].at = "entered"
    /\ workers' = [workers EXCEPT ![t] =
                      [at |-> "called", call |-> @.call, saved |-> @.saved,
                       wlist |-> @.wlist, out |-> CallOf(t).out,
                       emitted |-> CallOf(t).emitted]]
    /\ wmodule' = [filters |-> CallOf(t).w.filters, hook |-> wmodule.hook]
    /\ wlists' = IF wmodule.hook = 0 THEN wlists
                 ELSE [wlists EXCEPT ![wmodule.hook] = CallOf(t).w.hook.log]

\* the end of the with block for thread t: the envelope with the warnings of its own
\* list, and the module as __exit__ leaves it
Left(t) ==
    Captured(workers[t].call.method, workers[t].saved,
             Outcome(workers[t].out,
                     [filters |-> wmodule.filters,
                      hook |-> RecordHook(wlists[workers[t].wlist])],
                     workers[t].emitted))

\* if len(wlist): response["warnings"] = ...; catch_warnings.__exit__
Leaves(t) ==
    /\ workers[t].at = "called"
    /\ workers' = [workers EXCEPT ![t] =
                      [at |-> "left", emitted |-> @.emitted,
                       envelope |-> Left(t).response]]
    /\ wmodule' = Left(t).w
    /\ UNCHANGED wlists

\* the envelope is sent; the thread waits for the next request
Answers(t) ==
    /\ workers[t].at \in {"left", "answered"}
    /\ workers' = [workers EXCEPT ![t] = IdleWorker]
    /\ UNCHANGED << wmodule, wlists >>

ParallelRest == << server_vars, client_vars, proxy_vars, codec_vars, task_vars >>

ThreadEnters ==
    /\ \E t \in Workers : \E request \in ParallelRequests : Enters(t, request)
    /\ UNCHANGED ParallelRest

ThreadCalls == (\E t \in Workers : Calls(t)) /\ UNCHANGED ParallelRest

ThreadLeaves == (\E t \in Workers : Leaves(t)) /\ UNCHANGED ParallelRest

ThreadAnswers == (\E t \in Workers : Answers(t)) /\ UNCHANGED ParallelRest

ParallelNext == ThreadEnters \/ ThreadCalls \/ ThreadLeaves \/ ThreadAnswers

ParallelSpec == Init /\ [][ParallelNext]_vars

(***************************************************************************)
(* The warnings of calls dispatched side by side.                          *)
(***************************************************************************)
\* the warnings of an envelope
EnvelopeWarnings(env) == IF "warnings" \in DOMAIN env THEN env.warnings ELSE << >>

\* C36 as stated: when calls of different connections are dispatched in parallel,
\* the warnings of each envelope are exactly the warnings its own invocation
\* emitted; none is recorded on, or lost to, the envelope of another call.
C36_WarningsNeverCross ==
    \A t \in Workers :
        workers[t].at = "left" => EnvelopeWarnings(workers[t].envelope) = workers[t].emitted

\* thread 1 entered its with block, then thread 2 did; the method of thread 1 warned
\* "one" and that of thread 2 returned without a warning: the envelope of thread 1 has
\* no warning and the envelope of thread 2 has the warning of thread 1
C36_WarningOnTheOtherEnvelope ==
    /\ workers[1].at = "left"
    /\ workers[1].emitted = << "one" >>
    /\ EnvelopeWarnings(workers[1].envelope) = << >>
    /\ workers[2].at = "left"
    /\ workers[2].emitted = << >>
    /\ EnvelopeWarnings(workers[2].envelope) = << "one" >>

(***************************************************************************)
(* Flushes of several contexts on the same loops.  Each task is the        *)
(* __call__ of a cooperative context of its own; the tasks of a loop run   *)
(* one at a time, each up to its next await.  From the start of __call__   *)
(* to the POST there is no await: the test for loop._tuber_session and the *)
(* creation of the session are one step.                                   *)
(***************************************************************************)
\* the tasks made in a behaviour
MaxFlushes == 3

\* asyncio.ensure_future(ctx(...)) on the running loop, for a context with calls
\* queued or with none; early tells whether the loop had no session at that time
Schedules(some) ==
    /\ running # 0
    /\ Len(tasks) < MaxFlushes
    /\ tasks' = Append(tasks, [at |-> "scheduled", loop |-> running, calls |-> some,
                               early |-> loops[running].session = 0, cs |-> 0])
    /\ UNCHANGED << cpc, context_vars, queue_vars, flush_vars, loop_vars >>

\* TaskStarts as it would be if the task were suspended between the test for
\* loop._tuber_session and the creation of the session: the test is the one made
\* when the task was scheduled
TaskStarts_suspended_after_test(k) ==
    /\ tasks[k].at = "scheduled"
    /\ running = tasks[k].loop
    /\ IF ~tasks[k].calls
       THEN /\ tasks' = [tasks EXCEPT ![k].at = "done"]
            /\ UNCHANGED << loops, sessions >>
       ELSE /\ IF tasks[k].early THEN WithSession_every_flush(running)
               ELSE WithSession(running)
            /\ tasks' = [tasks EXCEPT ![k].at = "posted",
                                      ![k].cs = loops'[running].session]
    /\ UNCHANGED << cpc, context_vars, queue_vars, flush_vars, running >>

\* the first step of __call__: an empty context returns []; else the calls are
\* popped, the session of the running loop is made if it has none, and the task is
\* suspended in cs.post
TaskStarts(k) ==
    /\ tasks[k].at = "scheduled"
    /\ running = tasks[k].loop
    /\ IF ~tasks[k].calls
       THEN /\ tasks' = [tasks EXCEPT ![k].at = "done"]
            /\ UNCHANGED << loops, sessions >>
       ELSE /\ WithSession(running)
            /\ tasks' = [tasks EXCEPT ![k].at = "posted",
                                      ![k].cs = loops'[running].session]
    /\ UNCHANGED << cpc, context_vars, queue_vars, flush_vars, running >>

\* the response arrives and __call__ runs to its end
TaskEnds(k) ==
    /\ tasks[k].at = "posted"
    /\ running = tasks[k].loop
    /\ tasks' = [tasks EXCEPT ![k].at = "done"]
    /\ UNCHANGED << cpc, context_vars, queue_vars, flush_vars, loop_vars >>

\* the tasks of loop l that have not ended
Unfinished(l) == { k \in 1..Len(tasks) : tasks[k].loop = l /\ tasks[k].at # "done" }

TaskRest == << server_vars, proxy_vars, codec_vars, thread_vars >>

TaskScheduled == (\E some \in BOOLEAN : Schedules(some)) /\ UNCHANGED TaskRest

TaskStarted == (\E k \in 1..Len(tasks) : TaskStarts(k)) /\ UNCHANGED TaskRest

TaskEnded == (\E k \in 1..Len(tasks) : TaskEnds(k)) /\ UNCHANGED TaskRest

LoopStops == LoopReturns /\ UNCHANGED << TaskRest, tasks >>

LoopResumes == (\E l \in LoopIds : LoopRuns(l)) /\ UNCHANGED << TaskRest, tasks >>

\* a loop is closed when its flushes have ended
LoopClosed ==
    /\ \E l \in LoopIds : Unfinished(l) = {} /\ LoopCloses(l)
    /\ UNCHANGED << TaskRest, tasks >>

TaskNext ==
    TaskScheduled \/ TaskStarted \/ TaskEnded \/ LoopStops \/ LoopResumes \/ LoopClosed

TaskSpec == Init /\ [][TaskNext]_vars

(***************************************************************************)
(* One session per loop, whatever the order of the flushes.                *)
(***************************************************************************)
\* no loop has had two sessions, and every flush that is suspended in its POST
\* uses the session that its loop holds, which is open
FlushesShareTheSession ==
    /\ \A l \in LoopIds : Cardinality(SessionsOf(l)) <= 1
    /\ \A k \in 1..Len(tasks) :
          tasks[k].at = "posted" =>
              /\ tasks[k].cs # 0
              /\ tasks[k].cs = loops[tasks[k].loop].session
              /\ sessions[tasks[k].cs].state = "open"

\* the session of a loop is not replaced by another: it stays, or is removed by close
SessionNotReplaced ==
    \A l \in LoopIds :
        loops[l].session # 0 => loops'[l].session \in {loops[l].session, 0}

\* a session is made only by the first step of a flush that has calls, on a loop
\* that has none
SessionMadeOnce ==
    sessions' # sessions /\ Len(sessions') > Len(sessions) =>
        /\ loops[running].session = 0
        /\ sessions' = Append(sessions, [loop |-> running, state |-> "open"])
        /\ \E k \in 1..Len(tasks) :
              tasks[k].calls /\ tasks[k].at = "scheduled" /\ tasks'[k].at = "posted"

\* C40: at most one HTTP session is ever created per event loop, even when several
\* cooperative flushes of different contexts start on the same loop before any
\* session exists; no interleaving of flushes creates two sessions or replaces a
\* session that another flush is using.
C40_OneSessionForConcurrentFlushes ==
    []FlushesShareTheSession /\ [][SessionNotReplaced /\ SessionMadeOnce]_vars

\* two flushes scheduled on loop 1 before it had a session are both suspended in
\* their POST, on the one session of the loop
C40_TwoEarlyFlushesOneSession ==
    /\ Len(tasks) >= 2
    /\ \A k \in 1..2 :
          /\ tasks[k].at = "posted"
          /\ tasks[k].early
          /\ tasks[k].loop = 1
          /\ tasks[k].cs = 1
    /\ sessions = << [loop |-> 1, state |-> "open"] >>

====
